---- MODULE Spec2Model ----
(***************************************************************************)
(* RESTifAI test-synthesis engine: the orchestrator loop of                *)
(* cli_scripts/generate_tests.py, the baseline generator                   *)
(* (basecase_flow_generator.py), the oracle retry loops (llm_manager.py),  *)
(* the output parser (llm_output_parser.py), the operation flow            *)
(* (operation_flow.py), the negative test-case generator                   *)
(* (test_case_generator.py) and the Postman collection builder             *)
(* (postman_collection_builder.py).                                        *)
(*                                                                         *)
(* Strings that the code takes apart (operation ids, flat-map keys) are    *)
(* sequences of tokens, so that startswith, concatenation and split are    *)
(* computed and not assumed.  Every "." of a key is a token of its own.    *)
(***************************************************************************)
EXTENDS Integers, Sequences, FiniteSets, TLC

VARIABLES
    pc,                     \* position of the orchestrator / generator
    i,                      \* index of the endpoint the main loop is at
    operation_flow,         \* the BaselineFlowGenerator's current OperationFlow
    idx,                    \* index of the plan step _process_operation runs
    attempt,                \* _process_operation: attempt
    status_code,            \* _process_operation: status_code
    request_data,           \* _process_operation: request_data
    llm_attempt,            \* the oracle retry loop's attempt
    failures, server_errors, successes,   \* orchestrator counters
    test_descriptions,      \* number of negative scenarios of the current target
    sc,                     \* index of the scenario being materialized
    value_dict,             \* operation_value_flow_dict handed to parse_test_case_values
    files,                  \* artifacts in the suite folder of the current target: [suite, case]
    failed_log,             \* failed_testcase_value_generations.json
    collection,             \* the collection the builder wrote last for this target
    requests_sent,          \* history: requests sent for the step idx
    last_status,            \* history: status of the last response of this flow
                            \* (0: none yet, -1: the request failed in transport)
    materialize_failed,     \* history: scenario for which the oracle loop gave up (0: none)
    oracle_none,            \* history: the oracle gave no usable values in this flow
    missing_placeholder,    \* history: the last output of the oracle in the current ask
                            \* had a placeholder of a key the running map lacks
    raised,                 \* history: exception caught by the main loop for this target
    \* one request with a JSON body, from the oracle's output to the collection
    bpc,                    \* position: "off", "start", "parsed", "sent", "emitted"
    oracle_body,            \* llm_output["body"]
    body_request,           \* RequestData: body_flatten and body
    body_method,            \* endpoint.method of the step
    body_sent,              \* the body send_request put on the wire
    body_item,              \* the body of the item the builder wrote
    \* one JSON value through flatten_body_data and unflatten_body_data
    rtpc,                   \* position: "off", "start", "flat", "done"
    rt_data,                \* the value that is flattened
    rt_flat,                \* the flat dict
    rt_back,                \* what unflatten_body_data returns for the flat dict
    \* one HTTP response captured by ResponseData.__init__
    resp_pc,                \* position: "off", "received", "captured"
    resp_raw,               \* the requests.Response: status_code, json() or text
    resp_data,              \* the ResponseData: status_code, body, body_flatten
    \* one function of the program called on its own
    call_pc,                \* position: "off", "called", "returned"
    call_args,              \* the arguments of the call
    call_result             \* what the call returned, or the state it left

mvars == <<pc, i, operation_flow, idx, attempt,
           status_code, request_data, llm_attempt, failures, server_errors,
           successes, test_descriptions, sc, value_dict, files, failed_log,
           collection, requests_sent, last_status, materialize_failed,
           oracle_none, missing_placeholder, raised>>

bvars == <<bpc, oracle_body, body_method, body_request, body_sent, body_item>>

rtvars == <<rtpc, rt_data, rt_flat, rt_back>>

rsvars == <<resp_pc, resp_raw, resp_data>>

cvars == <<call_pc, call_args, call_result>>

vars == <<mvars, bvars, rtvars, rsvars, cvars>>

\* the variables an action of one part leaves alone: those of the other parts
outside_main == <<bvars, rtvars, rsvars, cvars>>
outside_body == <<mvars, rtvars, rsvars, cvars>>
outside_rt == <<mvars, bvars, rsvars, cvars>>
outside_rs == <<mvars, bvars, rtvars, cvars>>
outside_call == <<mvars, bvars, rtvars, rsvars>>

-----------------------------------------------------------------------------
(* Bounds of the model *)

MaxPlanLen == 2
MaxScenarios == 2
MaxInt == 1
MaxExecutions == 3
MaxListLen == 12
MaxOverlayLen == 2
MaxParams == 2
MaxSteps == 1
MaxSaves == 3

(* Program constants *)

\* a retry budget that is one too large
MAX_VALID_REQUEST_VALUE_GENERATION_RETRIES_OffByOne == 10 + 1

MAX_VALID_REQUEST_VALUE_GENERATION_RETRIES == 10
\* an oracle budget of GenerateValid that is one too large
GenerateMaxRetries_OffByOne == 3 + 1

GenerateMaxRetries == 3
FixMaxRetries == 3
MaterializeMaxRetries == 3
\* a planner budget that is one too large
SelectMaxRetries_OffByOne == 3 + 1

SelectMaxRetries == 3

-----------------------------------------------------------------------------
(* Strings as token sequences *)

StartsWith(s, p) == Len(p) <= Len(s) /\ SubSeq(s, 1, Len(p)) = p

RemovePrefix(s, p) == SubSeq(s, Len(p) + 1, Len(s))

\* The operation ids of the specification: "a" and "ab" ("ab" starts with "a").
OpA == <<"a">>
OpAB == <<"a", "b">>
Endpoints == <<OpA, OpAB>>
OperationIds == {Endpoints[n] : n \in 1..Len(Endpoints)}

Dot == <<".">>
StatusCodeRest == <<"response", ".", "status_code">>
ResponseBodyIdRest == <<"response", ".", "body", ".", "id">>
PathParamsPrefix == <<"request", ".", "path_params", ".">>
PathIdRest == PathParamsPrefix \o <<"id">>

Key(operation_id, rest) == operation_id \o Dot \o rest

-----------------------------------------------------------------------------
(* JSON scalars and OperationParameter *)

IntVal(n) == [type |-> "int", n |-> n]
StrVal(segs) == [type |-> "str", segs |-> segs]
ObjVal == [type |-> "obj"]
NoneVal == [type |-> "none"]
\* a dict (its keys in insertion order, each a token sequence) and a list
Obj(keys, kids) == [type |-> "object", keys |-> keys, kids |-> kids]
Arr(kids) == [type |-> "array", kids |-> kids]
IsContainer(v) == v.type \in {"object", "array"}
EmptyObj == Obj(<<>>, <<>>)
EmptyArr == Arr(<<>>)
Lit(s) == [t |-> "lit", s |-> s]
Ref(k) == [t |-> "ref", key |-> k]
Undefined == StrVal(<<Lit("__undefined")>>)

\* re.findall(placeholder_pattern, v): the keys of the placeholders of v, in order
RECURSIVE PlaceholderMatches(_)
PlaceholderMatches(segs) ==
    IF segs = <<>> THEN <<>>
    ELSE (IF Head(segs).t = "ref" THEN <<Head(segs).key>> ELSE <<>>)
         \o PlaceholderMatches(Tail(segs))

SeqToSet(s) == {s[n] : n \in 1..Len(s)}

\* the truth value Python gives v
Truthy(v) ==
    IF v.type = "object" THEN v.keys # <<>>
    ELSE IF v.type = "array" THEN v.kids # <<>>
    ELSE IF v.type = "int" THEN v.n # 0
    ELSE IF v.type = "str" THEN v.segs # <<>>
    ELSE FALSE

\* str(value)
StrOf(v) == IF v.type = "int" THEN <<Lit(ToString(v.n))>>
            ELSE IF v.type = "str" THEN v.segs ELSE <<Lit("obj")>>

\* replaced_value.replace("{{key}}", str(previous_values[key])) for every match
RECURSIVE ReplaceAll(_, _)
ReplaceAll(segs, previous_values) ==
    IF segs = <<>> THEN <<>>
    ELSE (IF Head(segs).t = "ref" THEN StrOf(previous_values[Head(segs).key])
          ELSE <<Head(segs)>>)
         \o ReplaceAll(Tail(segs), previous_values)

Generated(v) == [source |-> "generated", value |-> v, source_keys |-> <<>>,
                 value_with_placeholder |-> <<>>]
Dependent(v, keys, raw) == [source |-> "dependent", value |-> v, source_keys |-> keys,
                            value_with_placeholder |-> raw]

IsOperationParameter(v) == "source" \in DOMAIN v

-----------------------------------------------------------------------------
(* operation_flow.py *)

\* a 2xx test that takes 300 as well
Is2xx_Through300(s) == 200 <= s /\ s <= 300

Is2xx(s) == 200 <= s /\ s < 300
Is4xx(s) == 400 <= s /\ s < 500
\* a 5xx test that takes the 4xx statuses as well
Is5xx_From400(s) == 400 <= s /\ s < 600

\* a 5xx test that misses 500
Is5xx_Above500(s) == 500 < s /\ s < 600

Is5xx(s) == 500 <= s /\ s < 600

\* ExecutedOperation.flatten_with_refs: the flat keys of one execution
FlattenWithRefs(op) ==
    [k \in {Key(op.operation_id, PathParamsPrefix \o <<n>>) : n \in DOMAIN op.request.path_params}
           \cup {Key(op.operation_id, ResponseBodyIdRest), Key(op.operation_id, StatusCodeRest)}
     |-> IF RemovePrefix(k, op.operation_id \o Dot) = ResponseBodyIdRest
            THEN op.response.body_id
         ELSE IF RemovePrefix(k, op.operation_id \o Dot) = StatusCodeRest
            THEN IntVal(op.response.status_code)
         ELSE op.request.path_params[k[Len(k)]]]

\* dict.update: the entries of m2 replace those of m1
Update(m1, m2) ==
    [k \in DOMAIN m1 \cup DOMAIN m2 |-> IF k \in DOMAIN m2 THEN m2[k] ELSE m1[k]]

EmptyMap == [k \in {} |-> 0]

\* OperationFlow.get_values_with_ref_objects
RECURSIVE ValuesOfExecutions(_)
ValuesOfExecutions(ops) ==
    IF ops = <<>> THEN EmptyMap
    ELSE Update(ValuesOfExecutions(SubSeq(ops, 1, Len(ops) - 1)),
                FlattenWithRefs(ops[Len(ops)]))

get_values_with_ref_objects(flow) == ValuesOfExecutions(flow.executed_operations)

\* resolve_values
resolve_values(m) ==
    [k \in DOMAIN m |-> IF IsOperationParameter(m[k]) THEN m[k].value ELSE m[k]]

\* OperationFlow.previous_values_to_dict: the running flat map
previous_values_to_dict(flow) == resolve_values(get_values_with_ref_objects(flow))

\* OperationFlow._get_new_operation_id: [ops, id], ops with the renamed execution
FirstStartingWith(ops, operation_id) ==
    LET hits == {n \in 1..Len(ops) : StartsWith(ops[n].operation_id, operation_id)}
    IN IF hits = {} THEN 0 ELSE CHOOSE n \in hits : \A m \in hits : n <= m

RECURSIVE FreeSuffix(_, _, _)
FreeSuffix(ops, operation_id, suffix) ==
    IF \E n \in 1..Len(ops) : ops[n].operation_id = operation_id \o <<"_", ToString(suffix)>>
        THEN FreeSuffix(ops, operation_id, suffix + 1)
    ELSE suffix

get_new_operation_id(ops, operation_id) ==
    LET n == FirstStartingWith(ops, operation_id) IN
    IF n = 0 THEN [ops |-> ops, id |-> operation_id]
    ELSE LET renamed == [ops EXCEPT ![n].operation_id = operation_id \o <<"_", "1">>]
         IN [ops |-> renamed,
             id |-> operation_id \o <<"_", ToString(FreeSuffix(renamed, operation_id, 2))>>]

\* OperationFlow.add_executed_operation
add_executed_operation(flow, operation_id, request, response) ==
    LET r == get_new_operation_id(flow.executed_operations, operation_id) IN
    [flow EXCEPT !.executed_operations =
        Append(r.ops, [operation_id |-> r.id, request |-> request, response |-> response])]

-----------------------------------------------------------------------------
(* llm_output_parser.py: _parse_params and parse_generated_params *)

\* a parser that does not look for missing placeholders: the value keeps them
parse_param_NoMissingCheck(previous_values, v) ==
    IF v.type = "obj" THEN [ok |-> FALSE]
    ELSE IF v.type # "str" \/ PlaceholderMatches(v.segs) = <<>>
        THEN [ok |-> TRUE, param |-> Generated(v)]
    ELSE IF \E k \in SeqToSet(PlaceholderMatches(v.segs)) : k \notin DOMAIN previous_values
        THEN [ok |-> TRUE, param |-> Dependent(v, PlaceholderMatches(v.segs), v.segs)]
    ELSE IF v.segs = <<Ref(PlaceholderMatches(v.segs)[1])>>
        THEN [ok |-> TRUE,
              param |-> Dependent(previous_values[PlaceholderMatches(v.segs)[1]],
                                  PlaceholderMatches(v.segs), v.segs)]
    ELSE [ok |-> TRUE,
          param |-> Dependent(StrVal(ReplaceAll(v.segs, previous_values)),
                              PlaceholderMatches(v.segs), v.segs)]

\* one parameter value: [ok, param]
parse_param(previous_values, v) ==
    IF v.type = "obj" THEN [ok |-> FALSE]
    ELSE IF v.type # "str" THEN [ok |-> TRUE, param |-> Generated(v)]
    ELSE LET placeholder_matches == PlaceholderMatches(v.segs) IN
         IF placeholder_matches = <<>> THEN [ok |-> TRUE, param |-> Generated(v)]
         ELSE IF \E n \in 1..Len(placeholder_matches) :
                     placeholder_matches[n] \notin DOMAIN previous_values
            THEN [ok |-> FALSE]
         ELSE IF Len(placeholder_matches) = 1 /\ v.segs = <<Ref(placeholder_matches[1])>>
            THEN [ok |-> TRUE,
                  param |-> Dependent(previous_values[placeholder_matches[1]],
                                      placeholder_matches, v.segs)]
         ELSE [ok |-> TRUE,
               param |-> Dependent(StrVal(ReplaceAll(v.segs, previous_values)),
                                   placeholder_matches, v.segs)]

\* _parse_params over one section of the oracle's output
parse_params(previous_values, section) ==
    IF \E n \in DOMAIN section : ~parse_param(previous_values, section[n]).ok
        THEN [ok |-> FALSE]
    ELSE [ok |-> TRUE,
          params |-> [n \in DOMAIN section |-> parse_param(previous_values, section[n]).param]]

\* _replace_placeholders on one string of the body: [ok, value]
replace_placeholders(input_string, previous_values) ==
    LET placeholder_matches == PlaceholderMatches(input_string.segs) IN
    IF placeholder_matches = <<>> THEN [ok |-> TRUE, value |-> input_string]
    ELSE IF \E n \in 1..Len(placeholder_matches) :
                placeholder_matches[n] \notin DOMAIN previous_values
       THEN [ok |-> FALSE]
    ELSE IF Len(placeholder_matches) = 1
            /\ input_string.segs = <<Ref(placeholder_matches[1])>>
       THEN [ok |-> TRUE, value |-> previous_values[placeholder_matches[1]]]
    ELSE [ok |-> TRUE, value |-> StrVal(ReplaceAll(input_string.segs, previous_values))]

\* _fill_body_placeholders: [ok, value], not ok when a string of the body raises
RECURSIVE fill_body_placeholders(_, _)
fill_body_placeholders(body, previous_values) ==
    IF IsContainer(body) THEN
        LET filled == [n \in 1..Len(body.kids) |->
                          fill_body_placeholders(body.kids[n], previous_values)]
        IN IF \E n \in 1..Len(body.kids) : ~filled[n].ok THEN [ok |-> FALSE]
           ELSE [ok |-> TRUE,
                 value |-> [body EXCEPT !.kids = [n \in 1..Len(body.kids) |-> filled[n].value]]]
    ELSE IF body.type = "str" THEN replace_placeholders(body, previous_values)
    ELSE [ok |-> TRUE, value |-> body]

\* a dict as the sequence of its entries, in insertion order
Entry(k, v) == [key |-> k, value |-> v]

\* d[k] = v
DictSet(d, k, v) ==
    LET hits == {n \in 1..Len(d) : d[n].key = k}
    IN IF hits = {} THEN Append(d, Entry(k, v))
       ELSE [d EXCEPT ![CHOOSE n \in hits : TRUE].value = v]

\* d.update(new)
RECURSIVE DictUpdate(_, _)
DictUpdate(d, new) ==
    IF new = <<>> THEN d
    ELSE DictUpdate(DictSet(d, Head(new).key, Head(new).value), Tail(new))

\* "[0]", "[1]": the index parts of a compound key, one token each
IndexTokens == <<"[0]", "[1]", "[2]", "[3]", "[4]", "[5]", "[6]", "[7]", "[8]", "[9]", "[10]",
                 "[11]", "[12]", "[13]">>
IsIndex(part) == \E n \in 1..Len(IndexTokens) : IndexTokens[n] = part
IndexOf(part) == (CHOOSE n \in 1..Len(IndexTokens) : IndexTokens[n] = part) - 1

\* operation_flow.py flatten_body_data: the entries of the flat dict
RECURSIVE flatten_body_data(_, _)
flatten_body_data(data, prefix) ==
    IF data.type = "object" THEN
        LET flat_dict[n \in 0..Len(data.keys)] ==
                IF n = 0 THEN <<>>
                ELSE LET full_key == IF prefix # <<>> THEN prefix \o Dot \o data.keys[n]
                                     ELSE data.keys[n]
                     IN DictUpdate(flat_dict[n - 1], flatten_body_data(data.kids[n], full_key))
        IN flat_dict[Len(data.keys)]
    ELSE IF data.type = "array" THEN
        LET flat_dict[n \in 0..Len(data.kids)] ==
                IF n = 0 THEN <<>>
                ELSE DictUpdate(flat_dict[n - 1],
                                flatten_body_data(data.kids[n], prefix \o <<IndexTokens[n]>>))
        IN flat_dict[Len(data.kids)]
    ELSE IF prefix # <<>> THEN <<Entry(prefix, data)>>
    ELSE <<>>

TypeError == [type |-> "TypeError"]

\* re.split(r'(\[\d+\])|\.', compound_key) without the empty parts
Parts(compound_key) == SelectSeq(compound_key, LAMBDA t : t # ".")

\* part in current, current[part] and current[part] = v for a dict and a key
KeyIndex(current, part) ==
    LET hits == {n \in 1..Len(current.keys) : current.keys[n] = <<part>>}
    IN IF hits = {} THEN 0 ELSE CHOOSE n \in hits : TRUE

SetKey(current, part, v) ==
    IF KeyIndex(current, part) = 0
        THEN Obj(Append(current.keys, <<part>>), Append(current.kids, v))
    ELSE [current EXCEPT !.kids[KeyIndex(current, part)] = v]

\* while len(current) <= index: current.append({})
RECURSIVE Expand(_, _)
Expand(current, index) ==
    IF Len(current.kids) <= index
        THEN Expand(Arr(Append(current.kids, EmptyObj)), index)
    ELSE current

\* unflatten_body_data, the inner loop from the part at hand on: the container
\* current once value is stored under parts, or TypeError
RECURSIVE StoreAt(_, _, _)
StoreAt(current, parts, value) ==
    LET part == Head(parts)
        is_last == Len(parts) = 1
        fresh == IF ~is_last /\ IsIndex(parts[2]) THEN EmptyArr ELSE EmptyObj
    IN IF IsIndex(part) THEN
           IF current.type # "array" THEN TypeError
           ELSE LET expanded == Expand(current, IndexOf(part))
                    n == IndexOf(part) + 1
                IN IF is_last THEN [expanded EXCEPT !.kids[n] = value]
                   ELSE LET child == IF IsContainer(expanded.kids[n]) THEN expanded.kids[n]
                                     ELSE fresh
                            stored == StoreAt(child, Tail(parts), value)
                        IN IF stored = TypeError THEN TypeError
                           ELSE [expanded EXCEPT !.kids[n] = stored]
       ELSE \* a dict key; a list takes no string index
           IF current.type # "object" THEN TypeError
           ELSE IF is_last THEN SetKey(current, part, value)
           ELSE LET n == KeyIndex(current, part)
                    child == IF n # 0 /\ IsContainer(current.kids[n]) THEN current.kids[n]
                             ELSE fresh
                    stored == StoreAt(child, Tail(parts), value)
                IN IF stored = TypeError THEN TypeError
                   ELSE SetKey(current, part, stored)

\* operation_flow.py unflatten_body_data
unflatten_body_data(flat_data) ==
    LET should_be_list == \E n \in 1..Len(flat_data) : IsIndex(Head(flat_data[n].key))
        root[n \in 0..Len(flat_data)] ==
            IF n = 0 THEN (IF should_be_list THEN EmptyArr ELSE EmptyObj)
            ELSE IF root[n - 1] = TypeError THEN TypeError
            ELSE StoreAt(root[n - 1], Parts(flat_data[n].key), flat_data[n].value)
    IN root[Len(flat_data)]

\* parse_generated_params, the body (lines 176-191): [ok, body_flatten, body]
parse_generated_body(body_data, previous_values) ==
    LET body_flatten == flatten_body_data(body_data, <<>>)
        parsed_body_flatten ==
            parse_params(previous_values, [n \in 1..Len(body_flatten) |-> body_flatten[n].value])
        body_raw == fill_body_placeholders(body_data, previous_values)
    IN IF parsed_body_flatten.ok /\ body_raw.ok
          THEN [ok |-> TRUE,
                body_flatten |-> [n \in 1..Len(body_flatten) |->
                                     Entry(body_flatten[n].key, parsed_body_flatten.params[n])],
                body |-> body_raw.value]
       ELSE [ok |-> FALSE]

\* parse_generated_params: [ok, request_data]
parse_generated_params(llm_output, flow) ==
    LET previous_values == previous_values_to_dict(flow)
        parsed == parse_params(previous_values, llm_output.path_params)
        parsed_body == parse_generated_body(llm_output.body, previous_values)
    IN IF parsed.ok /\ parsed_body.ok
          THEN [ok |-> TRUE,
                request_data |-> [path_params |-> parsed.params, body |-> parsed_body.body]]
       ELSE [ok |-> FALSE]

-----------------------------------------------------------------------------
(* What the oracle and the SUT can answer *)

PlaceholderKeys == {Key(o, ResponseBodyIdRest) : o \in OperationIds \cup {OpA \o <<"_", "1">>}}

RawValues == {StrVal(<<Lit("x")>>), ObjVal}
             \cup {StrVal(<<Ref(k)>>) : k \in PlaceholderKeys}
             \cup {StrVal(<<Lit("x"), Ref(k)>>) : k \in PlaceholderKeys}

\* the placeholder keys of a raw value
MatchesOf(v) == IF v.type = "str" THEN SeqToSet(PlaceholderMatches(v.segs)) ELSE {}

\* the JSON objects GenerateValid / FixValid can return: a path parameter, and
\* possibly a body that is one string
LLMOutputs == {[path_params |-> [n \in {"id"} |-> v], body |-> NoneVal] : v \in RawValues}
              \cup {[path_params |-> [n \in {"id"} |-> StrVal(<<Lit("x")>>)],
                     body |-> StrVal(<<Ref(k)>>)] : k \in PlaceholderKeys}

\* the output has a {{key}} whose key is not in the running flat map
HasMissingPlaceholder(llm_output, flow) ==
    \E v \in {llm_output.path_params[n] : n \in DOMAIN llm_output.path_params}
               \cup {llm_output.body} :
        \E k \in MatchesOf(v) : k \notin DOMAIN previous_values_to_dict(flow)

\* what one oracle invocation does: time out, return text that is no JSON, or JSON
LLMOutcomes == {[kind |-> "timeout"], [kind |-> "malformed"]}
               \cup {[kind |-> "json", output |-> o] : o \in LLMOutputs}

Statuses == {299, 300, 404, 500}

\* requests.request: a response with a status, or an exception (no status received)
SendOutcomes == {[transport |-> TRUE]} \cup {[transport |-> FALSE, status |-> s] : s \in Statuses}

ResponseOf(status) == [status_code |-> status, body_id |-> IntVal(7)]

\* the plans parse_operation_sequence accepts for a target
RECURSIVE SeqsUpTo(_, _)
SeqsUpTo(S, n) ==
    IF n = 0 THEN {<<>>}
    ELSE SeqsUpTo(S, n - 1) \cup {Append(p, x) : p \in {q \in SeqsUpTo(S, n - 1) : Len(q) = n - 1}, x \in S}

parse_operation_sequence_ok(operation_sequence, operation_under_test) ==
    /\ operation_sequence # <<>>
    /\ \A n \in 1..Len(operation_sequence) : operation_sequence[n] \in OperationIds
    /\ operation_sequence[Len(operation_sequence)] = operation_under_test

ValidPlans(target) ==
    {p \in SeqsUpTo(OperationIds, MaxPlanLen) : parse_operation_sequence_ok(p, target)}

\* what the worker pool can have stored for the n-th endpoint
StoredPlans(n) ==
    IF n \in 1..Len(Endpoints) THEN ValidPlans(Endpoints[n]) \cup {<<>>} ELSE {}

-----------------------------------------------------------------------------
(* The state when the main loop starts: nothing processed *)

NoFlow == [operation_id |-> <<>>, selected_operations |-> <<>>,
           executed_operations |-> <<>>, result |-> "failure"]
NoRequest == [path_params |-> EmptyMap, body |-> NoneVal]
NoCollection == [written |-> FALSE]
NoBodyRequest == [body_flatten |-> <<>>, body |-> NoneVal]
NoBodyItem == [present |-> FALSE, raw |-> NoneVal]

InitMain ==
    /\ pc = "loop"
    /\ i = 1
    /\ operation_flow = NoFlow
    /\ idx = 0
    /\ attempt = 0
    /\ status_code = 200
    /\ request_data = NoRequest
    /\ llm_attempt = 0
    /\ failures = 0 /\ server_errors = 0 /\ successes = 0
    /\ test_descriptions = 0
    /\ sc = 0
    /\ value_dict = EmptyMap
    /\ files = {}
    /\ failed_log = <<>>
    /\ collection = NoCollection
    /\ requests_sent = 0
    /\ last_status = 0
    /\ materialize_failed = 0
    /\ oracle_none = FALSE
    /\ missing_placeholder = FALSE
    /\ raised = "none"

\* no body is followed
BodyOff ==
    /\ bpc = "off"
    /\ oracle_body = NoneVal
    /\ body_method = "GET"
    /\ body_request = NoBodyRequest
    /\ body_sent = NoneVal
    /\ body_item = NoBodyItem

\* no value is flattened
RoundTripOff ==
    /\ rtpc = "off"
    /\ rt_data = NoneVal
    /\ rt_flat = <<>>
    /\ rt_back = NoneVal

\* no response is captured
ResponseOff ==
    /\ resp_pc = "off"
    /\ resp_raw = [status_code |-> 0, is_json |-> FALSE, json |-> NoneVal, text |-> StrVal(<<>>)]
    /\ resp_data = [status_code |-> 0, body |-> NoneVal, body_flatten |-> <<>>]

\* no function is called on its own
CallOff ==
    /\ call_pc = "off"
    /\ call_args = <<>>
    /\ call_result = <<>>

\* every part but the main loop is idle
OthersOff == BodyOff /\ RoundTripOff /\ ResponseOff

Init ==
    /\ InitMain
    /\ BodyOff
    /\ RoundTripOff
    /\ ResponseOff
    /\ CallOff

-----------------------------------------------------------------------------
(* generate_tests.py: the main loop (lines 115-196) *)

\* the loop goes on to the next endpoint
NextEndpoint ==
    /\ i' = i + 1
    /\ pc' = IF i + 1 > Len(Endpoints) THEN "finished" ELSE "loop"

\* except Exception (lines 194-196)
HandleException(e) ==
    /\ failures' = failures + 1
    /\ raised' = e
    /\ NextEndpoint

\* _process_operation starts: attempt = 1 after the first "attempt += 1"
StartStep(n) ==
    /\ idx' = n
    /\ attempt' = 1
    /\ status_code' = 200
    /\ llm_attempt' = 0
    /\ requests_sent' = 0
    /\ missing_placeholder' = FALSE
    /\ request_data' = NoRequest
    /\ pc' = "llm"

\* lines 117-135 and generate_valid_operation_flow up to the first oracle call.
\* dependent_operations is what select_operations_for_endpoint stored for this
\* endpoint in the worker pool (lines 96-113): a parsed plan, the fallback, or
\* nothing (<<>>) when the task raised; the loop reads it here (line 122)
ProcessEndpoint(dependent_operations) ==
    /\ pc = "loop"
    /\ UNCHANGED outside_main
    /\ test_descriptions' = 0
    /\ sc' = 0
    /\ value_dict' = EmptyMap
    /\ collection' = NoCollection
    /\ oracle_none' = FALSE
    /\ raised' = "none"
    /\ last_status' = 0
    /\ materialize_failed' = 0
    /\ files' = {}
    /\ UNCHANGED <<server_errors, successes, failed_log>>
    /\ IF dependent_operations = <<>>
          THEN /\ failures' = failures + 1
               /\ NextEndpoint
               /\ operation_flow' = NoFlow
               /\ idx' = 0 /\ attempt' = 0 /\ status_code' = 200 /\ llm_attempt' = 0
               /\ requests_sent' = 0 /\ missing_placeholder' = FALSE /\ request_data' = NoRequest
       ELSE /\ operation_flow' = [operation_id |-> Endpoints[i],
                                  selected_operations |-> dependent_operations,
                                  executed_operations |-> <<>>,
                                  result |-> "failure"]
            /\ StartStep(1)
            /\ UNCHANGED <<i, failures>>

-----------------------------------------------------------------------------
(* basecase_flow_generator.py: _process_operation (lines 50-124) and the oracle
   loops of generate_valid_values_for_endpoint / fix_values_for_endpoint *)

\* line 58: GenerateValid after a 2xx status_code (initially 200), FixValid otherwise
AskMode == IF status_code >= 200 /\ status_code < 300 THEN "generate" ELSE "fix"

AskMaxRetries == IF AskMode = "generate" THEN GenerateMaxRetries ELSE FixMaxRetries

\* one invocation of the oracle inside the retry loop: "none" when the loop gives
\* up, "retry" when it goes round again, "values" when it returns request data
AskResult(outcome) ==
    IF outcome.kind = "timeout" THEN [kind |-> "none"]
    ELSE LET parsed == IF outcome.kind = "json"
                          THEN parse_generated_params(outcome.output, operation_flow)
                       ELSE [ok |-> FALSE]
         IN IF parsed.ok THEN [kind |-> "values", request_data |-> parsed.request_data]
            ELSE IF llm_attempt + 1 < AskMaxRetries THEN [kind |-> "retry"]
            ELSE [kind |-> "none"]

\* endpoint.method of the operations of the specification
Method(operation_id) == IF operation_id = OpA THEN "POST" ELSE "GET"

\* lines 74-77: request_data.body before the request is sent
BodyForMethod(method, body) ==
    IF method \in {"POST", "PUT", "PATCH"} THEN (IF Truthy(body) THEN body ELSE EmptyObj)
    ELSE NoneVal

LLMCall(outcome) ==
    /\ pc = "llm"
    /\ UNCHANGED outside_main
    /\ LET r == AskResult(outcome) IN
       /\ UNCHANGED <<operation_flow, idx, attempt,
                      status_code, server_errors, successes, test_descriptions, sc,
                      value_dict, files, failed_log, collection, requests_sent,
                      last_status, materialize_failed>>
       /\ missing_placeholder' = (outcome.kind = "json"
                                  /\ HasMissingPlaceholder(outcome.output, operation_flow))
       /\ CASE r.kind = "values" ->
                 /\ request_data' =
                       [r.request_data EXCEPT
                           !.body = BodyForMethod(Method(operation_flow.selected_operations[idx]), @)]
                 /\ llm_attempt' = 0
                 /\ pc' = "send"
                 /\ UNCHANGED <<i, failures, oracle_none, raised>>
            [] r.kind = "retry" ->
                 /\ llm_attempt' = llm_attempt + 1
                 /\ pc' = "llm"
                 /\ UNCHANGED <<i, failures, request_data, oracle_none, raised>>
            [] r.kind = "none" /\ AskMode = "generate" ->
                 \* (None, None): request_data is None, return False (lines 70-72)
                 /\ llm_attempt' = 0
                 /\ pc' = "returned"
                 /\ oracle_none' = TRUE
                 /\ UNCHANGED <<i, failures, request_data, raised>>
            [] r.kind = "none" /\ AskMode = "fix" ->
                 \* fix_values_for_endpoint returns a bare None (line 314): the
                 \* unpacking at line 61 raises TypeError
                 /\ llm_attempt' = 0
                 /\ oracle_none' = TRUE
                 /\ HandleException("TypeError")
                 /\ UNCHANGED request_data

\* _remove_previous_4xx_failed_requests
remove_previous_4xx_failed_requests(flow) ==
    [flow EXCEPT !.executed_operations =
        LET ops == flow.executed_operations
            keep == {n \in 1..Len(ops) : ~Is4xx(ops[n].response.status_code)}
            F[n \in 0..Len(ops)] ==
                IF n = 0 THEN <<>>
                ELSE IF n \in keep THEN Append(F[n - 1], ops[n]) ELSE F[n - 1]
        IN F[Len(ops)]]

\* the "while attempt < max_retries" test after a response that is no 2xx and
\* no 5xx, and the check after the loop (lines 111-114)
RetryOrFail(flow) ==
    IF attempt < MAX_VALID_REQUEST_VALUE_GENERATION_RETRIES
        THEN /\ attempt' = attempt + 1
             /\ llm_attempt' = 0
             /\ missing_placeholder' = FALSE
             /\ pc' = "llm"
             /\ operation_flow' = flow
             /\ request_data' = NoRequest
             /\ UNCHANGED idx
    ELSE /\ operation_flow' = [flow EXCEPT !.result = "failure"]
         /\ pc' = "returned"
         /\ UNCHANGED <<idx, attempt, llm_attempt, missing_placeholder, request_data>>

SendRequest(outcome) ==
    /\ pc = "send"
    /\ UNCHANGED outside_main
    /\ UNCHANGED <<server_errors, successes,
                   test_descriptions, sc, value_dict, files, failed_log, collection,
                   oracle_none, materialize_failed>>
    /\ last_status' = IF outcome.transport THEN -1 ELSE outcome.status
    /\ IF outcome.transport
          THEN \* requests.request raises; nothing between here and the main loop catches
               /\ HandleException("ConnectionError")
               /\ requests_sent' = requests_sent + 1
               /\ UNCHANGED <<operation_flow, idx, attempt, status_code, llm_attempt,
                              missing_placeholder, request_data>>
       ELSE LET s == outcome.status
                operation_id == operation_flow.selected_operations[idx]
            IN
            /\ UNCHANGED <<i, failures, raised>>
            /\ CASE Is5xx(s) ->
                      /\ operation_flow' =
                            [add_executed_operation(operation_flow, operation_id,
                                                    request_data, ResponseOf(s))
                             EXCEPT !.result = "server_error"]
                      /\ pc' = "returned"
                      /\ status_code' = s
                      /\ requests_sent' = requests_sent + 1
                      /\ UNCHANGED <<idx, attempt, llm_attempt, missing_placeholder, request_data>>
                 [] Is4xx(s) ->
                      /\ RetryOrFail([operation_flow EXCEPT !.result = "failure"])
                      /\ status_code' = s
                      /\ requests_sent' = requests_sent + 1
                 [] Is2xx(s) ->
                      /\ operation_flow' =
                            [add_executed_operation(
                                 remove_previous_4xx_failed_requests(operation_flow),
                                 operation_id, request_data, ResponseOf(s))
                             EXCEPT !.result = "success"]
                      /\ IF idx < Len(operation_flow.selected_operations)
                            THEN StartStep(idx + 1)
                         ELSE /\ pc' = "returned"
                              /\ status_code' = s
                              /\ requests_sent' = requests_sent + 1
                              /\ UNCHANGED <<idx, attempt, llm_attempt, missing_placeholder,
                                             request_data>>
                 [] OTHER ->
                      /\ RetryOrFail(operation_flow)
                      /\ status_code' = s
                      /\ requests_sent' = requests_sent + 1

-----------------------------------------------------------------------------
(* llm_output_parser.py: parse_test_case_values (lines 261-300) *)

ACCEPTED_PREFIXES == {<<"request", ".", "path_params">>, <<"request", ".", "query_params">>,
                      <<"request", ".", "headers">>, <<"request", ".", "cookies">>,
                      <<"request", ".", "body">>, <<"response", ".", "status_code">>}

\* k.split(".", 1)[1] if "." in k else k
FirstDot(k) ==
    LET dots == {n \in 1..Len(k) : k[n] = "."}
    IN IF dots = {} THEN 0 ELSE CHOOSE n \in dots : \A m \in dots : n <= m

k_split(k) == IF FirstDot(k) = 0 THEN k ELSE SubSeq(k, FirstDot(k) + 1, Len(k))

HasAcceptedPrefix(k) == \E prefix \in ACCEPTED_PREFIXES : StartsWith(k_split(k), prefix)

\* get_keys_with_prefix
get_keys_with_prefix(prefix, dictionary) == {k \in DOMAIN dictionary : StartsWith(k, prefix)}

Without(m, keys) == [k \in DOMAIN m \ keys |-> m[k]]
With(m, k, v) == [x \in DOMAIN m \cup {k} |-> IF x = k THEN v ELSE m[x]]

\* the body of the loop for one accepted entry (lines 282-298)
apply_entry(dict, k, v) ==
    IF k \in DOMAIN dict
        THEN (IF v = Undefined THEN Without(dict, {k}) ELSE With(dict, k, v))
    ELSE LET flow_key_with_prefix_k == get_keys_with_prefix(k, dict) IN
         IF flow_key_with_prefix_k # {}
            THEN Without(IF v # Undefined THEN With(dict, k, v) ELSE dict,
                         flow_key_with_prefix_k)
         ELSE IF v # Undefined THEN With(dict, k, v) ELSE dict

\* [ok, dict]: dict is the one object the caller handed in, changed in place up to
\* the entry that raised
RECURSIVE parse_test_case_values(_, _)
parse_test_case_values(llm_output, dict) ==
    IF llm_output = <<>> THEN [ok |-> TRUE, dict |-> dict]
    ELSE IF ~HasAcceptedPrefix(Head(llm_output).key) THEN [ok |-> FALSE, dict |-> dict]
    ELSE parse_test_case_values(Tail(llm_output),
                                apply_entry(dict, Head(llm_output).key, Head(llm_output).value))

-----------------------------------------------------------------------------
(* postman_collection_builder.py: add_postman_test_case, add_request_to_collection *)

\* ResponseData.from_dict: data.get('response.status_code', 200)
ExpectedStatus(operation_id, test_case_values) ==
    IF Key(operation_id, StatusCodeRest) \in DOMAIN test_case_values
        THEN test_case_values[Key(operation_id, StatusCodeRest)].n
    ELSE 200

\* one item of the collection: the variables its pre-request script reads and
\* sets, the status class its test script asserts, the variables the test script sets
add_request_to_collection(operation_id, test_case_values) ==
    LET request_keys == {k \in DOMAIN test_case_values :
                            StartsWith(k, operation_id \o <<".", "request", ".">>)}
        dependent_keys == {k \in request_keys :
                              /\ IsOperationParameter(test_case_values[k])
                              /\ test_case_values[k].source = "dependent"}
        expected_response_body_fields ==
            {k \in DOMAIN test_case_values :
                StartsWith(k, operation_id \o <<".", "response", ".", "body", ".">>)}
        status == ExpectedStatus(operation_id, test_case_values)
    IN [name |-> operation_id,
        reads |-> UNION {SeqToSet(test_case_values[k].source_keys) : k \in dependent_keys},
        sets |-> request_keys,
        assertion |-> IF 200 <= status /\ status < 300 THEN "2xx"
                      ELSE IF 400 <= status /\ status < 500 THEN "4xx" ELSE "none",
        captures |-> IF 200 <= status /\ status < 300
                        THEN expected_response_body_fields
                              \cup {Key(operation_id, StatusCodeRest)}
                     ELSE {}]

add_postman_test_case(flow, test_case_values) ==
    [n \in 1..Len(flow.executed_operations) |->
        add_request_to_collection(flow.executed_operations[n].operation_id, test_case_values)]

\* test_case_generator.add_test_case_to_test_suite: the collection that is saved
Collection(flow, test_case_values, case) ==
    [written |-> TRUE, suite |-> flow.operation_id, case |-> case,
     values |-> test_case_values,
     item |-> add_postman_test_case(flow, test_case_values)]

-----------------------------------------------------------------------------
-----------------------------------------------------------------------------
(* generate_tests.py lines 137-192 and test_case_generator.py *)

\* selected_operations[-1]
Target(flow) == IF flow.selected_operations = <<>> THEN <<>>
                ELSE flow.selected_operations[Len(flow.selected_operations)]

LastExecutedId(flow) ==
    IF flow.executed_operations = <<>> THEN Target(flow)
    ELSE flow.executed_operations[Len(flow.executed_operations)].operation_id

\* the overlays MaterializeScenario can return: JSON objects as lists of entries
StatusEntries(flow) ==
    {[key |-> Key(o, StatusCodeRest), value |-> v] :
        o \in {Target(flow), LastExecutedId(flow)},
        v \in {IntVal(404), IntVal(200), Undefined}}

RequestEntries(flow) ==
    {[key |-> Key(LastExecutedId(flow), PathIdRest), value |-> v] :
        v \in {StrVal(<<Lit("bad")>>), Undefined}}

BogusEntry(flow) == [key |-> Key(Target(flow), <<"bogus">>), value |-> IntVal(1)]

Overlays(flow) ==
    {<<>>, <<BogusEntry(flow)>>}
    \cup {<<e>> : e \in StatusEntries(flow) \cup RequestEntries(flow)}
    \cup {<<r, e>> : r \in RequestEntries(flow),
                     e \in {x \in StatusEntries(flow) : x.value = IntVal(404)}
                           \cup {BogusEntry(flow)}}

MaterializeOutcomes(flow) ==
    {[kind |-> "timeout"], [kind |-> "malformed"]}
    \cup {[kind |-> "json", output |-> o] : o \in Overlays(flow)}

\* _process_operation and generate_valid_operation_flow have returned: their
\* locals are gone
DropLocals ==
    /\ idx' = 0 /\ attempt' = 0 /\ status_code' = 200 /\ llm_attempt' = 0
    /\ requests_sent' = 0 /\ missing_placeholder' = FALSE /\ request_data' = NoRequest
    /\ last_status' = 0

\* lines 137-147: the flow generate_valid_operation_flow returned is classified
Classify ==
    /\ pc = "returned"
    /\ UNCHANGED outside_main
    /\ DropLocals
    /\ UNCHANGED <<operation_flow, test_descriptions, sc,
                   value_dict, files, failed_log, collection, oracle_none, raised,
                   materialize_failed>>
    /\ CASE operation_flow.result = "server_error" ->
              /\ server_errors' = server_errors + 1
              /\ NextEndpoint
              /\ UNCHANGED <<failures, successes>>
         [] operation_flow.result = "failure" ->
              /\ failures' = failures + 1
              /\ NextEndpoint
              /\ UNCHANGED <<server_errors, successes>>
         [] OTHER ->
              /\ successes' = successes + 1
              /\ pc' = "describe"
              /\ UNCHANGED <<i, failures, server_errors>>

\* the next scenario of add_negative_test_cases_to_suite, or the end of the suite
NextScenario(n) ==
    IF n <= test_descriptions'
        THEN /\ sc' = n
             /\ llm_attempt' = 0
             /\ value_dict' = get_values_with_ref_objects(operation_flow)
             /\ pc' = "materialize"
             /\ UNCHANGED <<i>>
    ELSE /\ NextEndpoint
         /\ llm_attempt' = 0
         /\ value_dict' = EmptyMap
         /\ UNCHANGED sc

\* lines 152-185: the negative descriptions (n of them), then generate_test_suite
\* which first writes the valid test case
GenerateTestSuite(n) ==
    /\ pc = "describe"
    /\ UNCHANGED outside_main
    /\ test_descriptions' = n
    /\ collection' = Collection(operation_flow, get_values_with_ref_objects(operation_flow), 0)
    /\ files' = files \cup {[suite |-> operation_flow.operation_id, case |-> 0]}
    /\ NextScenario(1)
    /\ UNCHANGED <<operation_flow, idx, attempt,
                   status_code, request_data, failures, server_errors, successes,
                   failed_log, requests_sent, oracle_none, missing_placeholder, raised,
                   last_status, materialize_failed>>

\* llm_manager.generate_invalid_values_from_test_case_description: one invocation
\* of the oracle; dict is the one object the caller handed in
MaterializeResult(outcome) ==
    IF outcome.kind = "timeout" THEN [kind |-> "none", dict |-> value_dict]
    ELSE LET parsed == IF outcome.kind = "json"
                          THEN parse_test_case_values(outcome.output, value_dict)
                       ELSE [ok |-> FALSE, dict |-> value_dict]
         IN IF parsed.ok THEN [kind |-> "values", dict |-> parsed.dict]
            ELSE IF llm_attempt + 1 < MaterializeMaxRetries
                THEN [kind |-> "retry", dict |-> parsed.dict]
            ELSE [kind |-> "none", dict |-> parsed.dict]

\* test_case_generator.generate_invalid_values_from_test_case_description
\* (lines 64-74) on what the llm_manager returned: the assert evaluates
\* "key in test_case_values" and raises TypeError on None, AssertionError when
\* the key is missing; otherwise the status code of the key is forced to 400
ForceStatus(flow, r) ==
    LET k == Key(Target(flow), StatusCodeRest) IN
    IF r.kind = "none" THEN [raises |-> "TypeError_in_None", is_none |-> TRUE]
    ELSE IF k \notin DOMAIN r.dict THEN [raises |-> "AssertionError", is_none |-> FALSE]
    ELSE [raises |-> "none", is_none |-> FALSE, values |-> With(r.dict, k, IntVal(400))]

\* one invocation of the oracle for the scenario sc, and, when the retry loop of
\* the llm_manager ends, add_negative_test_cases_to_suite (lines 123-136)
MaterializeCall(outcome) ==
    /\ pc = "materialize"
    /\ UNCHANGED outside_main
    /\ LET r == MaterializeResult(outcome) IN
       /\ UNCHANGED <<operation_flow, idx, attempt,
                      status_code, request_data, server_errors, successes,
                      test_descriptions, requests_sent, oracle_none, missing_placeholder,
                      last_status>>
       /\ materialize_failed' = IF r.kind = "none" THEN sc ELSE materialize_failed
       /\ IF r.kind = "retry"
             THEN /\ llm_attempt' = llm_attempt + 1
                  /\ value_dict' = r.dict
                  /\ collection' = NoCollection
                  /\ UNCHANGED <<pc, i, sc, failures, files, raised, failed_log>>
          ELSE LET g == ForceStatus(operation_flow, r) IN
               IF g.raises # "none"
                  THEN \* line 124 raises: the exception leaves generate_test_suite
                       /\ HandleException(g.raises)
                       /\ llm_attempt' = 0
                       /\ value_dict' = EmptyMap
                       /\ collection' = NoCollection
                       /\ UNCHANGED <<sc, files, failed_log>>
               ELSE IF g.is_none
                  THEN \* lines 125-129
                       /\ failed_log' = Append(failed_log, sc)
                       /\ collection' = NoCollection
                       /\ NextScenario(sc + 1)
                       /\ UNCHANGED <<failures, raised, files>>
               ELSE /\ collection' = Collection(operation_flow, g.values, sc)
                    /\ files' = files \cup {[suite |-> operation_flow.operation_id,
                                             case |-> sc]}
                    /\ NextScenario(sc + 1)
                    /\ UNCHANGED <<failures, raised, failed_log>>

-----------------------------------------------------------------------------
(* A request body from the oracle's output to the item of the Valid collection *)

RequestBodyPrefix == <<"request", ".", "body", ".">>
ResponseBodyNameRest == <<"response", ".", "body", ".", "name">>

\* the running flat map when the step is generated: an earlier step answered
\* with a name
BodyPreviousValues == [k \in {Key(OpA, ResponseBodyNameRest)} |-> StrVal(<<Lit("s")>>)]

\* the leaves and the bodies the oracle can write, nested two levels deep
BodyLeaves ==
    {IntVal(n) : n \in 1..MaxInt}
    \cup {StrVal(<<Lit("x")>>), NoneVal, StrVal(<<Ref(Key(OpA, ResponseBodyNameRest))>>)}

Containers(J) ==
    {EmptyObj, EmptyArr}
    \cup {Obj(<<k>>, <<x>>) : k \in {<<"a">>, <<"b">>}, x \in J}
    \cup {Obj(<<<<"a">>, <<"b">>>>, <<x, y>>) : x \in J, y \in J}
    \cup {Arr(<<x>>) : x \in J}
    \cup {Arr(<<x, y>>) : x \in J, y \in J}

JsonBodies == Containers(BodyLeaves \cup Containers(BodyLeaves))
              \cup Containers(BodyLeaves) \cup BodyLeaves

\* RequestData.to_dict and ExecutedOperation.flatten_with_refs: the body keys
\* of one execution in get_values_with_ref_objects
body_to_dict(operation_id, body_flatten) ==
    [n \in 1..Len(body_flatten) |->
        Entry(Key(operation_id, RequestBodyPrefix \o body_flatten[n].key), body_flatten[n].value)]

\* parse_operation and RequestData.from_dict: body_flatten of the operation
body_from_dict(operation_id, operation_value_flow) ==
    LET mine == SelectSeq(operation_value_flow,
                          LAMBDA e : StartsWith(e.key, operation_id \o Dot))
        operation_values ==
            [n \in 1..Len(mine) |->
                Entry(RemovePrefix(mine[n].key, operation_id \o Dot), mine[n].value)]
    IN SelectSeq(operation_values, LAMBDA e : StartsWith(e.key, RequestBodyPrefix))

\* the value the builder writes for one entry: a placeholder for a dependent one
BodyValue(collection_key, v) ==
    IF IsOperationParameter(v) /\ v.source = "dependent" THEN StrVal(<<Ref(collection_key)>>)
    ELSE IF IsOperationParameter(v) /\ v.source = "generated" THEN v.value
    ELSE v

\* PostmanCollectionBuilder._generate_body_obj: [present, raw], raw the JSON
\* of the raw body, or TypeError when unflatten_body_data raises
generate_body_obj(body_flatten, test_case_values, operation_id) ==
    LET body[n \in 0..Len(body_flatten)] ==
            IF n = 0 THEN <<>>
            ELSE DictSet(body[n - 1], RemovePrefix(body_flatten[n].key, RequestBodyPrefix),
                         BodyValue(operation_id \o Dot \o body_flatten[n].key,
                                   body_flatten[n].value))
        whole == {n \in 1..Len(test_case_values) :
                     test_case_values[n].key = operation_id \o <<".", "request", ".", "body">>}
        unflattened_body ==
            IF body_flatten # <<>> THEN unflatten_body_data(body[Len(body_flatten)])
            ELSE IF whole # {}
                THEN BodyValue(operation_id \o <<".", "request", ".", "body">>,
                               test_case_values[CHOOSE n \in whole : TRUE].value)
            ELSE NoneVal
    IN IF unflattened_body = TypeError THEN [present |-> FALSE, raw |-> TypeError]
       ELSE IF Truthy(unflattened_body) THEN [present |-> TRUE, raw |-> unflattened_body]
       ELSE NoBodyItem

\* parse_generated_params on the oracle's output for the step
ParseGeneratedBody ==
    /\ bpc = "start"
    /\ LET parsed == parse_generated_body(oracle_body, BodyPreviousValues) IN
       IF parsed.ok
           THEN /\ body_request' = [body_flatten |-> parsed.body_flatten, body |-> parsed.body]
                /\ bpc' = "parsed"
       ELSE /\ bpc' = "rejected"
            /\ UNCHANGED body_request
    /\ UNCHANGED <<oracle_body, body_method, body_sent, body_item, outside_body>>

\* _process_operation lines 74-82: the body is set for the method, and
\* CustomRequestSender.send_request puts request_data.body on the wire
SendBody ==
    /\ bpc = "parsed"
    /\ body_request' = [body_request EXCEPT !.body = BodyForMethod(body_method, @)]
    /\ body_sent' = body_request'.body
    /\ bpc' = "sent"
    /\ UNCHANGED <<oracle_body, body_method, body_item, outside_body>>

\* add_valid_test_case_to_suite: the item of the step in the Valid collection
AddValidBody ==
    /\ bpc = "sent"
    /\ LET test_case_values == body_to_dict(OpAB, body_request.body_flatten)
       IN body_item' = generate_body_obj(body_from_dict(OpAB, test_case_values),
                                         test_case_values, OpAB)
    /\ bpc' = "emitted"
    /\ UNCHANGED <<oracle_body, body_method, body_request, body_sent, outside_body>>

-----------------------------------------------------------------------------

Next ==
    \/ \E plan \in StoredPlans(i) : ProcessEndpoint(plan)
    \/ \E outcome \in LLMOutcomes : LLMCall(outcome)
    \/ \E outcome \in SendOutcomes : SendRequest(outcome)
    \/ Classify
    \/ \E n \in 0..MaxScenarios : GenerateTestSuite(n)
    \/ \E outcome \in MaterializeOutcomes(operation_flow) : MaterializeCall(outcome)

Spec == Init /\ [][Next]_vars

\* the step starts with any body the oracle can write
InitBody ==
    /\ InitMain
    /\ bpc = "start"
    /\ oracle_body \in JsonBodies
    /\ body_method \in {"POST", "GET"}
    /\ body_request = NoBodyRequest
    /\ body_sent = NoneVal
    /\ body_item = NoBodyItem
    /\ RoundTripOff
    /\ ResponseOff
    /\ CallOff

NextBody ==
    \/ ParseGeneratedBody
    \/ SendBody
    \/ AddValidBody

SpecBody == InitBody /\ [][NextBody]_vars

\* flatten_body_data(data) with the default prefix
Flatten ==
    /\ rtpc = "start"
    /\ rt_flat' = flatten_body_data(rt_data, <<>>)
    /\ rtpc' = "flat"
    /\ UNCHANGED <<rt_data, rt_back, outside_rt>>

\* unflatten_body_data on the flat dict; rt_back is TypeError when it raises
Unflatten ==
    /\ rtpc = "flat"
    /\ rt_back' = unflatten_body_data(rt_flat)
    /\ rtpc' = "done"
    /\ UNCHANGED <<rt_data, rt_flat, outside_rt>>

InitRoundTrip ==
    /\ InitMain
    /\ BodyOff
    /\ rtpc = "start"
    /\ rt_data \in JsonBodies
    /\ rt_flat = <<>>
    /\ rt_back = NoneVal
    /\ ResponseOff
    /\ CallOff

NextRoundTrip ==
    \/ Flatten
    \/ Unflatten

SpecRoundTrip == InitRoundTrip /\ [][NextRoundTrip]_vars

\* BaselineFlowGenerator._initialize_context for a plan of up to MaxExecutions steps
InitializeContext(selected_operations) ==
    /\ operation_flow = NoFlow
    /\ operation_flow' = [operation_id |-> selected_operations[Len(selected_operations)],
                          selected_operations |-> selected_operations,
                          executed_operations |-> <<>>,
                          result |-> "failure"]
    /\ UNCHANGED <<pc, i, idx, attempt, status_code, request_data, llm_attempt, failures,
                   server_errors, successes, test_descriptions, sc, value_dict, files,
                   failed_log, collection, requests_sent, last_status, materialize_failed,
                   oracle_none, missing_placeholder, raised, outside_main>>

\* the next step of the plan was answered 2xx: OperationFlow.add_executed_operation
AddExecutedOperation(status) ==
    /\ operation_flow # NoFlow
    /\ Len(operation_flow.executed_operations) < Len(operation_flow.selected_operations)
    /\ operation_flow' =
          add_executed_operation(
              operation_flow,
              operation_flow.selected_operations[Len(operation_flow.executed_operations) + 1],
              NoRequest, ResponseOf(status))
    /\ UNCHANGED <<pc, i, idx, attempt, status_code, request_data, llm_attempt, failures,
                   server_errors, successes, test_descriptions, sc, value_dict, files,
                   failed_log, collection, requests_sent, last_status, materialize_failed,
                   oracle_none, missing_placeholder, raised, outside_main>>

NextFlow ==
    \/ \E plan \in SeqsUpTo(OperationIds, MaxExecutions) \ {<<>>} : InitializeContext(plan)
    \/ \E status \in {200, 299} : AddExecutedOperation(status)

SpecFlow == Init /\ [][NextFlow]_vars

\* the list [1, ..., n]
ListOf(n) == Arr([k \in 1..n |-> IntVal(k)])

\* the responses of the SUT: a JSON list of up to MaxListLen numbers at the root,
\* under a key or inside a list, or a text that is no JSON
Responses ==
    {[status_code |-> s, is_json |-> TRUE, json |-> j, text |-> StrVal(<<>>)] :
        s \in {200, 404},
        j \in {ListOf(n) : n \in 0..MaxListLen}
              \cup {Obj(<<<<"a">>>>, <<ListOf(n)>>) : n \in 0..MaxListLen}
              \cup {Arr(<<ListOf(n)>>) : n \in 0..MaxListLen}}
    \cup {[status_code |-> s, is_json |-> FALSE, json |-> NoneVal, text |-> StrVal(<<Lit("x")>>)] :
             s \in {200, 404}}

\* ResponseData.__init__(response)
response_data_init(response) ==
    LET parsed == IF response.is_json THEN response.json ELSE response.text
        body == IF response.is_json /\ parsed.type = "array" /\ Len(parsed.kids) > 10
                   THEN Arr(SubSeq(parsed.kids, 1, 10))
                ELSE parsed
    IN [status_code |-> response.status_code,
        body |-> body,
        body_flatten |-> IF body # NoneVal
                            THEN flatten_body_data(body, <<"response", ".", "body">>)
                         ELSE <<>>]

ResponseDataInit ==
    /\ resp_pc = "received"
    /\ resp_data' = response_data_init(resp_raw)
    /\ resp_pc' = "captured"
    /\ UNCHANGED <<resp_raw, outside_rs>>

InitResponse ==
    /\ InitMain
    /\ BodyOff
    /\ RoundTripOff
    /\ resp_pc = "received"
    /\ resp_raw \in Responses
    /\ resp_data = [status_code |-> 0, body |-> NoneVal, body_flatten |-> <<>>]
    /\ CallOff

NextResponse == ResponseDataInit

SpecResponse == InitResponse /\ [][NextResponse]_vars

-----------------------------------------------------------------------------
(* llm_manager.py line 517: parse_test_case_values called on one output of the
   oracle and the flat values of a baseline *)

\* the keys of the body field "a" of operation "a": the field itself, a member
\* and an element below it, and the field "ab" whose name starts with "a"
BodyA == Key(OpA, <<"request", ".", "body", ".", "a">>)
BodyAMember == BodyA \o <<".", "b">>
BodyAElement == BodyA \o <<"[0]">>
BodyAB == BodyA \o <<"b">>
\* a key of an operation that no execution has, and a key of no request section
UnexecutedKey == Key(<<"z">>, <<"request", ".", "body", ".", "a">>)
NoSectionKey == Key(OpA, <<"bogus">>)

\* flatten_body_data writes a leaf, the members of a dict or the elements of a
\* list under one key, never two of them
FlowDicts ==
    {[k \in below \cup others |-> IntVal(0)] :
        below \in {{}, {BodyA}, {BodyAMember}, {BodyAElement}},
        others \in SUBSET {BodyAB, Key(OpA, StatusCodeRest)}}

\* a JSON object of the oracle: entries with distinct keys, in the order written
OverlayOutputs ==
    LET entries == {Entry(k, v) : k \in {BodyA, BodyAMember, BodyAElement, BodyAB,
                                         UnexecutedKey, NoSectionKey},
                                  v \in {IntVal(1), Undefined}}
    IN {o \in SeqsUpTo(entries, MaxOverlayLen) :
            \A m, n \in 1..Len(o) : m # n => o[m].key # o[n].key}

ParseTestCaseValues ==
    /\ call_pc = "called"
    /\ call_result' = parse_test_case_values(call_args.llm_output,
                                             call_args.operation_value_flow_dict)
    /\ call_pc' = "returned"
    /\ UNCHANGED <<call_args, outside_call>>

InitOverlay ==
    /\ InitMain
    /\ OthersOff
    /\ call_pc = "called"
    /\ call_args \in [llm_output : OverlayOutputs, operation_value_flow_dict : FlowDicts]
    /\ call_result = <<>>

NextOverlay == ParseTestCaseValues

SpecOverlay == InitOverlay /\ [][NextOverlay]_vars

-----------------------------------------------------------------------------
(* custom_request_sender.py: URLBuilder.build_url on the values parsed from one
   output of the oracle *)

\* "{name}" in a path template, or in a value the oracle wrote
Param(name) == [t |-> "param", name |-> name]

\* path.replace('{' + k + '}', str(v))
RECURSIVE replace(_, _, _)
replace(path, k, v) ==
    IF path = <<>> THEN <<>>
    ELSE (IF Head(path) = Param(k) THEN StrOf(v) ELSE <<Head(path)>>)
         \o replace(Tail(path), k, v)

\* lines 30-33: the loop over path_params.items()
RECURSIVE ReplacePathParams(_, _, _)
ReplacePathParams(path, names, values) ==
    IF names = <<>> THEN path
    ELSE ReplacePathParams(replace(path, Head(names), Head(values)), Tail(names), Tail(values))

\* the URL after base_url: the path, and the name=value pairs of the query string
build_url(path, path_params, query_params) ==
    [path |-> ReplacePathParams(path, path_params.names, path_params.values),
     query |-> [n \in 1..Len(query_params.names) |->
                   <<query_params.names[n], StrOf(query_params.values[n])>>]]

\* one section of the output: the names in the order written, and their values
Section(names, values) == [names |-> names, values |-> values]

PathTemplates == {<<Lit("/"), Lit("items")>>,
                  <<Lit("/"), Param("id")>>,
                  <<Lit("/"), Param("id"), Lit("/"), Param("n")>>}

SendPreviousValues == [k \in {Key(OpA, ResponseBodyIdRest)} |-> IntVal(7)]

SendValues == {StrVal(<<Lit("x")>>), IntVal(1), Undefined, StrVal(<<Param("n")>>),
               StrVal(<<Ref(Key(OpA, ResponseBodyIdRest))>>),
               StrVal(<<Ref(Key(OpAB, ResponseBodyIdRest))>>)}

Sections(all_names) ==
    {Section(names, values) :
        names \in {ns \in SeqsUpTo(all_names, MaxParams) :
                      \A m, n \in 1..Len(ns) : m # n => ns[m] # ns[n]},
        values \in SeqsUpTo(SendValues, MaxParams)}

\* parse_generated_params on the two sections, then send_request's build_url;
\* a ValueError of the parser sends nothing
BuildUrl ==
    /\ call_pc = "called"
    /\ LET path_params == parse_params(SendPreviousValues, call_args.path_params.values)
           query_params == parse_params(SendPreviousValues, call_args.query_params.values)
       IN call_result' =
            IF ~path_params.ok \/ ~query_params.ok THEN [sent |-> FALSE]
            ELSE [sent |-> TRUE,
                  url |-> build_url(call_args.path,
                                    Section(call_args.path_params.names,
                                            resolve_values(path_params.params)),
                                    Section(call_args.query_params.names,
                                            resolve_values(query_params.params)))]
    /\ call_pc' = "returned"
    /\ UNCHANGED <<call_args, outside_call>>

InitSend ==
    /\ InitMain
    /\ OthersOff
    /\ call_pc = "called"
    /\ call_args \in {[path |-> t, path_params |-> p, query_params |-> q] :
                         t \in PathTemplates,
                         p \in {x \in Sections({"id", "n"}) : Len(x.names) = Len(x.values)},
                         q \in {x \in Sections({"q"}) : Len(x.names) = Len(x.values)}}
    /\ call_result = <<>>

NextSend == BuildUrl

SpecSend == InitSend /\ [][NextSend]_vars

-----------------------------------------------------------------------------
(* llm_manager.py: select_operations (lines 316-366) *)

\* the ids the planner can write: those of the specification and one that is not
PlannedIds == OperationIds \cup {<<"z">>}

\* what one invocation of the planner does: time out, return text that is no
\* JSON, or a JSON object with operation_sequence and usage_guide
SelectOutcomes ==
    {[kind |-> "timeout"], [kind |-> "malformed"]}
    \cup {[kind |-> "json", operation_sequence |-> plan, usage_guide |-> guide] :
             plan \in SeqsUpTo(PlannedIds, MaxPlanLen), guide \in {<<>>, <<"guide">>}}

\* line 366
SelectFallback(operation_id) ==
    [operation_sequence |-> <<operation_id>>, usage_guide |-> <<"No usage guide available">>]

\* one turn of the while loop (lines 333-364)
SelectAttempt ==
    /\ call_pc = "called"
    /\ call_args.attempt < SelectMaxRetries
    /\ \E out \in SelectOutcomes :
          LET args == [call_args EXCEPT !.attempt = @ + 1, !.calls = @ + 1, !.output = out] IN
          IF out.kind = "timeout"
              THEN /\ call_args' = args
                   /\ call_result' = SelectFallback(call_args.operation_id)
                   /\ call_pc' = "returned"
          ELSE IF out.kind = "json"
                  /\ parse_operation_sequence_ok(out.operation_sequence, call_args.operation_id)
              THEN /\ call_args' = args
                   /\ call_result' = [operation_sequence |-> out.operation_sequence,
                                       usage_guide |-> out.usage_guide]
                   /\ call_pc' = "returned"
          ELSE /\ call_args' = [args EXCEPT !.error_message = <<out>>]
               /\ UNCHANGED <<call_pc, call_result>>
    /\ UNCHANGED outside_call

\* the loop ends with every attempt used (lines 333 and 366)
SelectGiveUp ==
    /\ call_pc = "called"
    /\ call_args.attempt >= SelectMaxRetries
    /\ call_result' = SelectFallback(call_args.operation_id)
    /\ call_pc' = "returned"
    /\ UNCHANGED <<call_args, outside_call>>

InitSelect ==
    /\ InitMain
    /\ OthersOff
    /\ call_pc = "called"
    /\ call_args \in {[operation_id |-> o, attempt |-> 0, calls |-> 0,
                         error_message |-> <<>>, output |-> [kind |-> "none"]] :
                            o \in OperationIds}
    /\ call_result = <<>>

NextSelect ==
    \/ SelectAttempt
    \/ SelectGiveUp

SpecSelect == InitSelect /\ [][NextSelect]_vars

-----------------------------------------------------------------------------
(* test_report_manager.py: process_collection_results and save_report *)

CaseNames == {"validRequest", "invalidId"}

\* what Newman reports for one item of a collection: no execution with the id of
\* the item, or an execution with a requestError (no response, code 0) or with
\* a response code, and assertions of which one may have failed
Executions ==
    {[executed |-> FALSE, requestError |-> FALSE, code |-> 0, assertion_error |-> FALSE]}
    \cup {[executed |-> TRUE, requestError |-> TRUE, code |-> 0, assertion_error |-> FALSE]}
    \cup {[executed |-> TRUE, requestError |-> FALSE, code |-> c, assertion_error |-> e] :
             c \in {200, 499, 500, 599, 600}, e \in BOOLEAN}

\* _process_request: the TestRequest of one item
process_request(run) ==
    IF ~run.executed THEN [success |-> FALSE, is_server_error |-> FALSE]
    ELSE [success |-> /\ ~run.requestError
                      /\ ~(500 <= run.code /\ run.code <= 599)
                      /\ ~run.assertion_error,
          is_server_error |-> 500 <= run.code /\ run.code <= 599]

\* _process_flat_collection_structure: the TestCase of one collection
process_flat_collection_structure(test_case_name, runs) ==
    LET requests == [n \in 1..Len(runs) |-> process_request(runs[n])] IN
    [test_case_name |-> test_case_name,
     success |-> \A n \in 1..Len(requests) :
                    requests[n].success /\ ~requests[n].is_server_error,
     requests |-> requests,
     has_server_error |-> \E n \in 1..Len(requests) : requests[n].is_server_error]

\* dataclass_to_dict of a TestCase: the JSON object written to the file
dataclass_to_dict(test_case) ==
    [f \in {"test_case_name", "success", "requests", "has_server_error"} |->
        CASE f = "test_case_name" -> test_case.test_case_name
          [] f = "success" -> test_case.success
          [] f = "requests" -> test_case.requests
          [] f = "has_server_error" -> test_case.has_server_error]

\* TestReport._convert_to_test_case: data.get(field, default)
convert_to_test_case(data) ==
    [test_case_name |-> IF "test_case_name" \in DOMAIN data THEN data["test_case_name"] ELSE "",
     success |-> IF "success" \in DOMAIN data THEN data["success"] ELSE FALSE,
     requests |-> IF "requests" \in DOMAIN data THEN data["requests"] ELSE <<>>,
     has_server_error |-> IF "has_server_error" \in DOMAIN data
                             THEN data["has_server_error"] ELSE FALSE]

\* calculate_report_statistics
calculate_report_statistics(test_results) ==
    [total_test_cases |-> Len(test_results),
     passed_test_cases |-> Len(SelectSeq(test_results, LAMBDA tc : tc.success)),
     failed_test_cases |-> Len(SelectSeq(test_results, LAMBDA tc : ~tc.success)),
     test_cases_with_server_errors |-> Len(SelectSeq(test_results, LAMBDA tc : tc.has_server_error))]

\* a save_report that appends without removing the cases of the same name
save_report_KeepsOldCases(file, test_results) ==
    LET merged_test_results ==
            [n \in 1..Len(file.test_results) |-> convert_to_test_case(file.test_results[n])]
            \o test_results
    IN [exists |-> TRUE,
        test_results |-> [n \in 1..Len(merged_test_results) |->
                             dataclass_to_dict(merged_test_results[n])],
        success |-> \A n \in 1..Len(merged_test_results) : merged_test_results[n].success,
        statistics |-> calculate_report_statistics(merged_test_results)]

\* save_report: the file of the suite after the call
save_report(file, test_results) ==
    LET existing_test_results ==
            IF file.exists
                THEN [n \in 1..Len(file.test_results) |->
                         convert_to_test_case(file.test_results[n])]
            ELSE <<>>
        new_test_case_names == {test_results[n].test_case_name : n \in 1..Len(test_results)}
        merged_test_results ==
            SelectSeq(existing_test_results,
                      LAMBDA tc : tc.test_case_name \notin new_test_case_names)
            \o test_results
    IN [exists |-> TRUE,
        test_results |-> [n \in 1..Len(merged_test_results) |->
                             dataclass_to_dict(merged_test_results[n])],
        success |-> \A n \in 1..Len(merged_test_results) : merged_test_results[n].success,
        statistics |-> calculate_report_statistics(merged_test_results)]

NoReportFile == [exists |-> FALSE, test_results |-> <<>>, success |-> TRUE,
                 statistics |-> calculate_report_statistics(<<>>)]

\* process_collection_results for the Newman report of one collection; call_args
\* keeps the report and, for every case name, the TestCase last saved under it
ProcessCollectionResults ==
    /\ call_pc = "called"
    /\ call_args.saves < MaxSaves
    /\ \E name \in CaseNames, runs \in SeqsUpTo(Executions, MaxSteps) :
          LET test_case == process_flat_collection_structure(name, runs) IN
          /\ call_result' = save_report(call_result, <<test_case>>)
          /\ call_args' = [saves |-> call_args.saves + 1,
                            name |-> name,
                            runs |-> runs,
                            saved |-> [call_args.saved EXCEPT ![name] = <<test_case>>]]
    /\ UNCHANGED <<call_pc, outside_call>>

InitReport ==
    /\ InitMain
    /\ OthersOff
    /\ call_pc = "called"
    /\ call_args = [saves |-> 0, name |-> "", runs |-> <<>>,
                     saved |-> [name \in CaseNames |-> <<>>]]
    /\ call_result = NoReportFile

NextReport == ProcessCollectionResults

SpecReport == InitReport /\ [][NextReport]_vars

-----------------------------------------------------------------------------
(* generate_tests.py: the counters of the main loop (lines 82-148) and the final
   results (lines 214-233) *)

\* a test case as Newman ran it: passed, failed, or failed with a server error
RunCases == {[success |-> TRUE, has_server_error |-> FALSE],
             [success |-> FALSE, has_server_error |-> FALSE],
             [success |-> FALSE, has_server_error |-> TRUE]}

\* what happens for one target: no plan stored, or the result of its baseline
\* flow; after a success the suite is written (the valid case and up to
\* MaxScenarios negative ones) and later run
TargetOutcomes ==
    {[plan |-> FALSE, result |-> "failure", cases |-> <<>>]}
    \cup {[plan |-> TRUE, result |-> r, cases |-> <<>>] : r \in {"failure", "server_error"}}
    \cup {[plan |-> TRUE, result |-> "success", cases |-> c] :
             c \in SeqsUpTo(RunCases, MaxScenarios + 1) \ {<<>>}}

\* one turn of the loop over the endpoints (lines 115-147)
CountTarget ==
    /\ call_pc = "called"
    /\ call_result.i <= Len(call_args)
    /\ LET t == call_args[call_result.i] IN
       call_result' =
           [call_result EXCEPT
               !.i = @ + 1,
               !.failures = IF ~t.plan \/ t.result = "failure" THEN @ + 1 ELSE @,
               !.server_errors = IF t.plan /\ t.result = "server_error" THEN @ + 1 ELSE @,
               !.successes = IF t.plan /\ t.result = "success" THEN @ + 1 ELSE @,
               !.suites = IF t.plan /\ t.result = "success" THEN Append(@, t.cases) ELSE @]
    /\ UNCHANGED <<call_pc, call_args, outside_call>>

\* get_all_reports_statistics over the reports of the suites that were run
get_all_reports_statistics(reports) ==
    LET suite_stats == [n \in 1..Len(reports) |-> calculate_report_statistics(reports[n])]
        Total[n \in 0..Len(reports)] ==
            IF n = 0 THEN [total_cases |-> 0, total_failed |-> 0, total_server_errors |-> 0]
            ELSE [total_cases |-> Total[n - 1].total_cases + suite_stats[n].total_test_cases,
                  total_failed |-> Total[n - 1].total_failed + suite_stats[n].failed_test_cases,
                  total_server_errors |-> Total[n - 1].total_server_errors
                                          + suite_stats[n].test_cases_with_server_errors]
    IN [total_suites |-> Len(reports),
        total_cases |-> Total[Len(reports)].total_cases,
        total_failed |-> Total[Len(reports)].total_failed,
        total_server_errors |-> Total[Len(reports)].total_server_errors]

\* lines 198-233: the suites are run, their reports read and the results written
WriteResults ==
    /\ call_pc = "called"
    /\ call_result.i > Len(call_args)
    /\ LET stats == get_all_reports_statistics(call_result.suites) IN
       call_result' = [call_result EXCEPT
                          !.results = [successful_operations |-> stats.total_suites,
                                       server_errors |-> stats.total_server_errors,
                                       total_tests |-> stats.total_cases,
                                       failed_tests |-> stats.total_failed]]
    /\ call_pc' = "returned"
    /\ UNCHANGED <<call_args, outside_call>>

NoResults == [successful_operations |-> 0, server_errors |-> 0, total_tests |-> 0,
              failed_tests |-> 0]

InitResults ==
    /\ InitMain
    /\ OthersOff
    /\ call_pc = "called"
    /\ call_args \in [1..Len(Endpoints) -> TargetOutcomes]
    /\ call_result = [i |-> 1, failures |-> 0, server_errors |-> 0, successes |-> 0,
                       suites |-> <<>>, results |-> NoResults]

NextResults ==
    \/ CountTarget
    \/ WriteResults

SpecResults == InitResults /\ [][NextResults]_vars

-----------------------------------------------------------------------------
(* generate_tests.py lines 92-113: the planning tasks of the worker pool, one per
   endpoint, and llm_manager.py: LLMTracker.add_usage on the one shared tracker *)

Tasks == 1..Len(Endpoints)

\* the statements of add_usage in order: each reads attributes of the tracker,
\* then stores one (lines 42-45; no lock is taken)
TrackerFields == <<"prompt_tokens", "completion_tokens", "total_tokens", "total_cost">>

\* the usage of one oracle call as the callback reports it
CallUsage == [prompt_tokens |-> 1, completion_tokens |-> 2, total_cost |-> 1]

\* the value the statement for a field computes from what it reads
StatementValue(tracker, field) ==
    IF field = "total_tokens" THEN tracker.prompt_tokens + tracker.completion_tokens
    ELSE tracker[field] + CallUsage[field]

\* invoke_chain_with_token_tracking in a task (select_operations, lines 342-347):
\* the chain returns and add_usage starts, or it times out and the task ends
InvokeChain(t) ==
    /\ call_pc = "called"
    /\ call_args[t].pc = "invoke"
    /\ \/ /\ call_args' = [call_args EXCEPT ![t].pc = "read", ![t].field = 1,
                                             ![t].attempt = @ + 1]
          /\ call_result' = [call_result EXCEPT !.calls = @ + 1]
       \/ /\ call_args' = [call_args EXCEPT ![t].pc = "done", ![t].attempt = @ + 1]
          /\ UNCHANGED call_result
    /\ UNCHANGED <<call_pc, outside_call>>

\* a statement of add_usage reads the tracker
ReadTracker(t) ==
    /\ call_pc = "called"
    /\ call_args[t].pc = "read"
    /\ call_args' = [call_args EXCEPT
                        ![t].pc = "write",
                        ![t].value = StatementValue(call_result.tracker,
                                                    TrackerFields[call_args[t].field])]
    /\ UNCHANGED <<call_pc, call_result, outside_call>>

\* the statement stores what it computed; after the last statement the output
\* is parsed: the plan is returned, or it is rejected and the oracle asked again
\* (at most SelectMaxRetries times)
WriteTracker(t) ==
    /\ call_pc = "called"
    /\ call_args[t].pc = "write"
    /\ call_result' = [call_result EXCEPT
                          !.tracker[TrackerFields[call_args[t].field]] = call_args[t].value]
    /\ IF call_args[t].field < Len(TrackerFields)
          THEN call_args' = [call_args EXCEPT ![t].pc = "read", ![t].field = @ + 1]
       ELSE \/ call_args' = [call_args EXCEPT ![t].pc = "done"]
            \/ /\ call_args[t].attempt < SelectMaxRetries
               /\ call_args' = [call_args EXCEPT ![t].pc = "invoke"]
    /\ UNCHANGED <<call_pc, outside_call>>

\* "with ThreadPoolExecutor" ends when every task has finished
PoolJoined ==
    /\ call_pc = "called"
    /\ \A t \in Tasks : call_args[t].pc = "done"
    /\ call_pc' = "returned"
    /\ UNCHANGED <<call_args, call_result, outside_call>>

InitPool ==
    /\ InitMain
    /\ OthersOff
    /\ call_pc = "called"
    /\ call_args = [t \in Tasks |-> [pc |-> "invoke", field |-> 1, value |-> 0, attempt |-> 0]]
    /\ call_result = [tracker |-> [prompt_tokens |-> 0, completion_tokens |-> 0,
                                    total_tokens |-> 0, total_cost |-> 0],
                       calls |-> 0]

NextPool ==
    \/ \E t \in Tasks : InvokeChain(t)
    \/ \E t \in Tasks : ReadTracker(t)
    \/ \E t \in Tasks : WriteTracker(t)
    \/ PoolJoined

SpecPool == InitPool /\ [][NextPool]_vars

(* llm_manager.py: the retry loops of generate_valid_values_for_endpoint
   (lines 175-232), fix_values_for_endpoint (252-314), select_operations
   (316-366) and generate_invalid_values_from_test_case_description (480-524),
   and what their callers do with the value returned *)

AskTemplates == {"generate", "fix", "select", "materialize"}

\* the texts the oracle can answer with
RawOutputs == {"raw1", "raw2"}

\* one invocation of the chain: APITimeoutError, or a text that is no JSON, a
\* JSON object the parser of the template rejects, or one it accepts
AskOutputs ==
    {[kind |-> "timeout", raw |-> "none"]}
    \cup {[kind |-> k, raw |-> r] : k \in {"not_json", "rejected", "accepted"}, r \in RawOutputs}

\* the text the loops build from an output and the error it caused
ErrorText(out) == [raw |-> out.raw, error |-> out.kind]

\* the prompt of a template with its example, before any error text
BasePrompt(template) == <<[raw |-> template, error |-> "none"]>>

\* max_retries of each loop (lines 192, 280, 331, 495)
AskRetries(template) ==
    CASE template = "generate" -> GenerateMaxRetries
      [] template = "fix" -> FixMaxRetries
      [] template = "select" -> SelectMaxRetries
      [] template = "materialize" -> MaterializeMaxRetries

\* the prompt a turn of the loop sends: fix_values_for_endpoint keeps one
\* prompt across the turns (lines 275-278), the others build it anew from the
\* template and error_message
PromptSent(args) ==
    IF args.template = "fix" THEN args.prompt
    ELSE BasePrompt(args.template) \o args.error_message

\* what the except branches leave for the next turn: every loop but that of
\* fix_values_for_endpoint stores the text in error_message; in
\* fix_values_for_endpoint line 294 evaluates "prompt + ..." without
\* assigning it and line 308 appends to prompt
AfterMalformed(args, out) ==
    IF args.template # "fix" THEN [args EXCEPT !.error_message = <<ErrorText(out)>>]
    ELSE IF out.kind = "rejected" THEN [args EXCEPT !.prompt = @ \o <<ErrorText(out)>>]
    ELSE args

\* the value after the loop (lines 232, 314, 366, 524)
AskDefault(template) ==
    CASE template = "generate" -> [kind |-> "pair_of_none"]
      [] template = "fix" -> [kind |-> "none"]
      [] template = "select" -> [kind |-> "default_plan"]
      [] template = "materialize" -> [kind |-> "none"]

\* one turn of the while loop
AskAttempt ==
    /\ call_pc = "called"
    /\ call_args.attempt < AskRetries(call_args.template)
    /\ \E out \in AskOutputs :
          LET args == [call_args EXCEPT !.attempt = @ + 1,
                                        !.sent = Append(@, PromptSent(call_args)),
                                        !.outputs = Append(@, out)] IN
          CASE out.kind = "timeout" ->
                  /\ call_args' = args
                  /\ call_result' = AskDefault(call_args.template)
                  /\ call_pc' = "returned"
            [] out.kind = "accepted" ->
                  /\ call_args' = args
                  /\ call_result' = [kind |-> "values", raw |-> out.raw]
                  /\ call_pc' = "returned"
            [] OTHER ->
                  /\ call_args' = AfterMalformed(args, out)
                  /\ UNCHANGED <<call_pc, call_result>>
    /\ UNCHANGED outside_call

\* the loop ends with every turn used
AskGiveUp ==
    /\ call_pc = "called"
    /\ call_args.attempt >= AskRetries(call_args.template)
    /\ call_result' = AskDefault(call_args.template)
    /\ call_pc' = "returned"
    /\ UNCHANGED <<call_args, outside_call>>

\* the caller takes the value: _process_operation unpacks it into two names
\* (basecase_flow_generator.py lines 59 and 61), which raises TypeError on a
\* bare None; generate_invalid_values_from_test_case_description tests
\* "key in test_case_values" (test_case_generator.py line 64), which raises
\* TypeError on None
AskReceive ==
    /\ call_pc = "returned"
    /\ call_pc' = IF call_result.kind = "none" THEN "raised" ELSE "received"
    /\ UNCHANGED <<call_args, call_result, outside_call>>

InitAsk ==
    /\ InitMain
    /\ OthersOff
    /\ call_pc = "called"
    /\ call_args \in {[template |-> t, attempt |-> 0, prompt |-> BasePrompt(t),
                         error_message |-> <<>>, sent |-> <<>>, outputs |-> <<>>] :
                            t \in AskTemplates}
    /\ call_result = [kind |-> "running"]

NextAsk ==
    \/ AskAttempt
    \/ AskGiveUp
    \/ AskReceive

SpecAsk == InitAsk /\ [][NextAsk]_vars

TypeOK ==
    /\ pc \in {"loop", "llm", "send", "returned", "describe", "materialize",
               "finished"}
    /\ i \in 1..Len(Endpoints) + 1
    /\ attempt \in 0..MAX_VALID_REQUEST_VALUE_GENERATION_RETRIES
    /\ llm_attempt \in 0..2
    /\ requests_sent \in 0..MAX_VALID_REQUEST_VALUE_GENERATION_RETRIES
    /\ failures + server_errors + successes <= 2 * Len(Endpoints)

-----------------------------------------------------------------------------
(* Properties of the baseline generator and the orchestrator *)

\* C1: the flow generate_valid_operation_flow returns has result success exactly
\* when every step of the plan has one recorded execution with a 2xx status; and
\* when the oracle yielded no usable request values for a step, the flow is not
\* success and nothing is written for the target
C1_SuccessIffEveryStepHas2xx ==
    LET flow == operation_flow
        complete == /\ Len(flow.executed_operations) = Len(flow.selected_operations)
                    /\ \A n \in 1..Len(flow.executed_operations) :
                          flow.executed_operations[n].response.status_code \in 200..299
    IN /\ pc = "returned" => (flow.result = "success" <=> complete)
       /\ oracle_none => (flow.result # "success" /\ files = {})

\* C2: at most 10 requests are sent for a plan step; a 2xx on any of them
\* completes the step (its execution is recorded, and the generator starts the
\* next step or returns success); when the 10th request gets a status that is
\* neither 2xx nor 5xx the flow is returned with result failure, without an
\* execution of this or a later step, and the loop leaves the target
C2_AtMostTenRequestsPerStep ==
    [][ /\ requests_sent' <= 10
        /\ pc' = "send" => requests_sent' < 10
        /\ (pc = "send" /\ last_status' \in 200..299) =>
              /\ Len(operation_flow'.executed_operations) = idx
              /\ IF idx < Len(operation_flow.selected_operations)
                    THEN pc' = "llm" /\ idx' = idx + 1 /\ requests_sent' = 0
                 ELSE pc' = "returned" /\ operation_flow'.result = "success"
        /\ (pc = "send" /\ requests_sent' = 10 /\ last_status' > 0
            /\ last_status' \notin (200..299) \cup (500..599)) =>
              /\ pc' = "returned"
              /\ operation_flow'.result = "failure"
              /\ Len(operation_flow'.executed_operations) = idx - 1
        /\ (pc = "returned" /\ operation_flow.result = "failure") =>
              /\ pc' \in {"loop", "finished"}
              /\ i' = i + 1
       ]_vars

\* the 10th request of the first step of a two-step plan was answered 404
C2_Witness ==
    /\ pc = "returned"
    /\ requests_sent = 10
    /\ last_status = 404
    /\ idx = 1
    /\ Len(operation_flow.selected_operations) = 2
    /\ operation_flow.result = "failure"

\* C3: a 5xx answer is recorded as an execution of the flow and the flow is
\* returned with result server_error; a flow with that result is not changed any
\* more, no request is sent for it, nothing is written for its target, and the
\* main loop counts it and goes on to the next endpoint
C3_ServerErrorEndsTheFlow ==
    [][ /\ (pc = "send" /\ last_status' \in 500..599) =>
              LET ops == operation_flow'.executed_operations IN
              /\ pc' = "returned"
              /\ operation_flow'.result = "server_error"
              /\ Len(ops) = Len(operation_flow.executed_operations) + 1
              /\ ops[Len(ops)].response.status_code = last_status'
        /\ operation_flow'.result = "server_error" =>
              /\ pc' \in {"returned", "loop", "finished"}
              /\ files' = {}
              /\ ~collection'.written
        /\ (pc = "returned" /\ operation_flow.result = "server_error") =>
              /\ operation_flow' = operation_flow
              /\ server_errors' = server_errors + 1
              /\ failures' = failures /\ successes' = successes
              /\ i' = i + 1
              /\ pc' = IF i < Len(Endpoints) THEN "loop" ELSE "finished"
       ]_vars

\* the first target ended with a server error and a request of the second target
\* is about to be sent
C3_Witness ==
    /\ i = 2
    /\ server_errors = 1
    /\ pc = "send"
    /\ files = {}

\* C4: a request that fails in transport counts as one attempt of the step: the
\* step is retried, and the flow is failure only when the 10 attempts are used up
C4_TransportFailureConsumesAnAttempt ==
    last_status = -1 =>
        \/ pc = "llm" /\ attempt <= 10 /\ raised = "none"
        \/ pc = "returned" /\ attempt = 10 /\ operation_flow.result = "failure"

\* C8: the request that is sent has no placeholder of a key the running flat map
\* lacks, in its path parameters (resolved value, raw value and source keys) and in
\* its body; an output of the oracle with such a placeholder is not sent: the
\* oracle is asked again, or the ask has ended without values
C8_NoUnresolvedPlaceholderIsSent ==
    LET previous_values == previous_values_to_dict(operation_flow)
        params == request_data.path_params
    IN /\ pc = "send" =>
             /\ \A n \in DOMAIN params :
                   /\ \A k \in SeqToSet(params[n].source_keys) : k \in DOMAIN previous_values
                   /\ \A k \in MatchesOf(params[n].value) : k \in DOMAIN previous_values
                   /\ SeqToSet(PlaceholderMatches(params[n].value_with_placeholder))
                         \subseteq SeqToSet(params[n].source_keys)
             /\ \A k \in MatchesOf(request_data.body) : k \in DOMAIN previous_values
       /\ missing_placeholder =>
             \/ pc = "llm" /\ llm_attempt \in 1..2
             \/ pc \in {"returned", "loop", "finished"} /\ oracle_none

\* at the second step the oracle named a key the map lacks and is asked again
C8_Witness ==
    /\ pc = "llm"
    /\ missing_placeholder
    /\ llm_attempt = 1
    /\ Len(operation_flow.executed_operations) = 1

-----------------------------------------------------------------------------
(* Properties of the negative scenarios and of the collections *)

\* C5: when the oracle loop of a scenario gives up, the scenario is in the log of
\* failed generations and the suite goes on (no exception reaches the main loop)
C5_FailedMaterializationIsLoggedAndSkipped ==
    materialize_failed # 0 =>
        /\ materialize_failed \in SeqToSet(failed_log)
        /\ raised = "none"

\* C6: in the values of a negative scenario that is written for a complete flow,
\* the status code of the last execution (the target's) is 400
C6_TargetStatusForcedTo400 ==
    (/\ collection.written
     /\ collection.case # 0
     /\ Len(operation_flow.executed_operations) = Len(operation_flow.selected_operations)) =>
        LET k == Key(LastExecutedId(operation_flow), StatusCodeRest) IN
        /\ k \in DOMAIN collection.values
        /\ collection.values[k] = IntVal(400)

\* C7: in a collection written for a complete flow, every variable an item's
\* pre-request script reads is set by an earlier item under that name
C7_ReadVariablesAreSetEarlier ==
    (/\ collection.written
     /\ Len(operation_flow.executed_operations) = Len(operation_flow.selected_operations)) =>
        \A n \in 1..Len(collection.item) :
            \A k \in collection.item[n].reads :
                \E m \in 1..(n - 1) :
                    k \in collection.item[m].sets \cup collection.item[m].captures

\* C9: in a collection written for a complete flow, the last item of a negative
\* scenario asserts 4xx and captures nothing; every item of the valid test case
\* asserts 2xx; and an item captures response values only after asserting 2xx
C9_StatusAssertions ==
    (/\ collection.written
     /\ Len(operation_flow.executed_operations) = Len(operation_flow.selected_operations)) =>
        LET item == collection.item IN
        /\ collection.case # 0 =>
              /\ item[Len(item)].assertion = "4xx"
              /\ item[Len(item)].captures = {}
        /\ collection.case = 0 => \A n \in 1..Len(item) : item[n].assertion = "2xx"
        /\ \A n \in 1..Len(item) : item[n].captures # {} => item[n].assertion = "2xx"

-----------------------------------------------------------------------------
(* Properties of the request bodies of the Valid collection *)

\* the collection variables the pre-request script of the item sets for the
\* dependent entries of the body: each gets the value of its source
CollectionVariables(operation_id, body_flatten) ==
    LET dependent == {n \in 1..Len(body_flatten) : body_flatten[n].value.source = "dependent"}
    IN [k \in {Key(operation_id, RequestBodyPrefix \o body_flatten[n].key) : n \in dependent}
        |-> body_flatten[CHOOSE n \in dependent :
                            k = Key(operation_id, RequestBodyPrefix \o body_flatten[n].key)
                        ].value.value]

\* the raw body once every {{key}} is replaced by the text of its variable
RECURSIVE ResolveBody(_, _)
ResolveBody(raw, variables) ==
    IF IsContainer(raw)
        THEN [raw EXCEPT !.kids = [n \in 1..Len(raw.kids) |-> ResolveBody(raw.kids[n], variables)]]
    ELSE IF raw.type = "str" THEN StrVal(ReplaceAll(raw.segs, variables))
    ELSE raw

\* C10: for the Valid scenario, the body of the item of a step, once its
\* placeholders are resolved, equals the body the baseline generator sent for
\* the step, whatever JSON body the oracle wrote: an item without body exactly
\* when no body was sent
C10_ValidBodyEqualsBaselineBody ==
    bpc = "emitted" =>
        IF body_sent = NoneVal THEN ~body_item.present
        ELSE /\ body_item.present
             /\ ResolveBody(body_item.raw,
                            CollectionVariables(OpAB, body_request.body_flatten)) = body_sent

-----------------------------------------------------------------------------
(* Properties of flatten_body_data and unflatten_body_data *)

\* object, array or scalar
KindOf(v) == IF IsContainer(v) THEN v.type ELSE "scalar"

\* no array of v, at any depth, has elements of different kinds
RECURSIVE NoMixedArrays(_)
NoMixedArrays(v) ==
    IF ~IsContainer(v) THEN TRUE
    ELSE /\ \A n \in 1..Len(v.kids) : NoMixedArrays(v.kids[n])
         /\ v.type = "array" =>
               \A n, m \in 1..Len(v.kids) : KindOf(v.kids[n]) = KindOf(v.kids[m])

\* C11: for every JSON value without mixed-type array positions, unflattening
\* the flattened value gives the value back (nested objects, root arrays, arrays
\* of arrays, null leaves, empty arrays and empty objects); stated here for the
\* values that are an object or an array at the root
C11_UnflattenInvertsFlatten ==
    (rtpc = "done" /\ IsContainer(rt_data) /\ NoMixedArrays(rt_data)) => rt_back = rt_data

-----------------------------------------------------------------------------
(* Properties of the operation ids of a flow *)

\* the positions of the plan at which operation_id is executed, in order
PositionsOf(plan, operation_id) ==
    SelectSeq([n \in 1..Len(plan) |-> n], LAMBDA n : plan[n] = operation_id)

\* C12: when every step of the plan is executed, an operation id the plan has
\* n >= 2 times has its executions stored as id_1 ... id_n in execution order,
\* the flat map has keys of each of them, and no key of the flat map starts
\* with the unsuffixed "id."
C12_RepeatedIdsAreSuffixedInOrder ==
    LET flow == operation_flow
        ops == flow.executed_operations
        keys == DOMAIN get_values_with_ref_objects(flow)
    IN (flow # NoFlow /\ Len(ops) = Len(flow.selected_operations)) =>
          \A operation_id \in OperationIds :
              LET at == PositionsOf(flow.selected_operations, operation_id) IN
              Len(at) >= 2 =>
                  /\ \A j \in 1..Len(at) :
                        /\ ops[at[j]].operation_id = operation_id \o <<"_", ToString(j)>>
                        /\ \E k \in keys :
                              StartsWith(k, operation_id \o <<"_", ToString(j)>> \o Dot)
                  /\ ~\E k \in keys : StartsWith(k, operation_id \o Dot)

-----------------------------------------------------------------------------
(* Properties of the captured responses *)

\* v with every list of more than 10 elements, at any depth, cut to its first 10
RECURSIVE TruncateLists(_)
TruncateLists(v) ==
    IF ~IsContainer(v) THEN v
    ELSE LET kids == IF v.type = "array" /\ Len(v.kids) > 10 THEN SubSeq(v.kids, 1, 10)
                     ELSE v.kids
         IN [v EXCEPT !.kids = [n \in 1..Len(kids) |-> TruncateLists(kids[n])]]

\* C13: every list of more than 10 elements of a captured JSON body, at the root
\* or nested, is stored as its first 10 elements, in the tree and in the flat
\* map; shorter lists are stored unchanged
C13_LongListsAreTruncated ==
    (resp_pc = "captured" /\ resp_raw.is_json) =>
        /\ resp_data.body = TruncateLists(resp_raw.json)
        /\ resp_data.body_flatten =
              flatten_body_data(TruncateLists(resp_raw.json), <<"response", ".", "body">>)

\* key continues k across a boundary: it is k followed by "." or by "["
Below(key, k) ==
    /\ StartsWith(key, k)
    /\ Len(key) > Len(k)
    /\ (key[Len(k) + 1] = "." \/ IsIndex(key[Len(k) + 1]))

\* the four override rules for one entry
OverrideRule(dict, k, v) ==
    LET below == {key \in DOMAIN dict : Below(key, k)} IN
    IF v = Undefined THEN [key \in DOMAIN dict \ ({k} \cup below) |-> dict[key]]
    ELSE IF k \in DOMAIN dict THEN [dict EXCEPT ![k] = v]
    ELSE [key \in (DOMAIN dict \ below) \cup {k} |-> IF key = k THEN v ELSE dict[key]]

RECURSIVE OverrideRules(_, _)
OverrideRules(llm_output, dict) ==
    IF llm_output = <<>> THEN dict
    ELSE OverrideRules(Tail(llm_output),
                       OverrideRule(dict, Head(llm_output).key, Head(llm_output).value))

\* C14: the dict parse_test_case_values returns for an accepted overlay is the
\* baseline with the four override rules applied entry by entry: "__undefined"
\* removes k and the keys below k (k followed by "." or "["), an existing k is
\* replaced, a new k replaces the keys below it, and a key that only starts with
\* the text of k is left alone.
C14_OverlayFollowsOverrideRules ==
    (call_pc = "returned" /\ call_result.ok) =>
        call_result.dict = OverrideRules(call_args.llm_output,
                                         call_args.operation_value_flow_dict)

\* the operation ids of the executions the flat values come from
ExecutedIds(dict) == {SubSeq(k, 1, FirstDot(k) - 1) : k \in DOMAIN dict}

\* C15: every key of an accepted overlay result starts with the id of an
\* execution followed by an accepted request section or response.status_code;
\* an overlay with a key of another operation id is rejected.
C15_AcceptedKeysNameAnExecution ==
    (call_pc = "returned" /\ call_result.ok) =>
        \A k \in DOMAIN call_result.dict :
            \E o \in ExecutedIds(call_args.operation_value_flow_dict) \cup {OpA} :
                \E prefix \in ACCEPTED_PREFIXES : StartsWith(k, Key(o, prefix))

\* the values the oracle wrote for the parameters of the call, path and query
WrittenValues ==
    SeqToSet(call_args.path_params.values) \cup SeqToSet(call_args.query_params.values)

\* C16: a parameter the oracle gave the value "__undefined" is left out of the
\* request that is sent: neither the path nor the query string of the URL holds
\* the text "__undefined".
C16_UndefinedIsNeverSent ==
    (call_pc = "returned" /\ call_result.sent /\ Undefined \in WrittenValues) =>
        /\ Lit("__undefined") \notin SeqToSet(call_result.url.path)
        /\ \A n \in 1..Len(call_result.url.query) :
               call_result.url.query[n][2] # <<Lit("__undefined")>>

\* C18: the URL of a request that is sent has no "{name}" left in its path.
C18_NoPathPlaceholderIsSent ==
    (call_pc = "returned" /\ call_result.sent) =>
        \A n \in 1..Len(call_result.url.path) : call_result.url.path[n].t # "param"

\* the plan select_operations returned is not empty, its ids are ids of the
\* specification and its last id is the target; the planner was asked at most 3
\* times; an output that was turned down is in the next prompt
SelectedPlanIsValid ==
    /\ call_args.calls <= 3
    /\ (call_args.calls > 0 /\ call_pc = "called") =>
           /\ call_args.error_message = <<call_args.output>>
           /\ ~(/\ call_args.output.kind = "json"
                 /\ call_args.output.operation_sequence # <<>>
                 /\ SeqToSet(call_args.output.operation_sequence) \subseteq OperationIds
                 /\ call_args.output.operation_sequence
                        [Len(call_args.output.operation_sequence)] = call_args.operation_id)
    /\ call_pc = "returned" =>
           /\ call_result.operation_sequence # <<>>
           /\ SeqToSet(call_result.operation_sequence) \subseteq OperationIds
           /\ call_result.operation_sequence[Len(call_result.operation_sequence)]
                  = call_args.operation_id

\* the planner's last output was not taken as the plan
FellBack ==
    /\ call_pc = "returned"
    /\ \/ call_args.output.kind # "json"
       \/ call_args.output.operation_sequence # call_result.operation_sequence

LastCase ==
    CHOOSE tc \in SeqToSet(call_result.test_results) : tc["test_case_name"] = call_args.name

\* C19: a step is flagged server-error exactly when its status is in 500..599 or
\* the request failed before any status was received; a case is flagged
\* server-error exactly when one of its steps is, and passes only if all of its
\* steps passed.
C19_ServerErrorFlags ==
    call_args.saves > 0 =>
        /\ \A n \in 1..Len(call_args.runs) :
               LastCase["requests"][n].is_server_error
                   <=> /\ call_args.runs[n].executed
                       /\ \/ call_args.runs[n].code \in 500..599
                          \/ call_args.runs[n].requestError
        /\ LastCase["has_server_error"]
               <=> \E n \in 1..Len(call_args.runs) : LastCase["requests"][n].is_server_error
        /\ LastCase["success"]
               => \A n \in 1..Len(call_args.runs) : LastCase["requests"][n].success

\* the indices of the stored cases with a name
EntriesOf(name) ==
    {n \in 1..Len(call_result.test_results) :
        call_result.test_results[n]["test_case_name"] = name}

\* C20: after any sequence of saves, every case name is stored at most once and
\* with the result saved last under it, names saved earlier are kept, and the
\* statistics are those of the stored cases: total = number of cases,
\* passed + failed = total, server-error count = number of flagged cases.
C20_MergedReportHasLatestResults ==
    /\ \A name \in CaseNames :
          IF call_args.saved[name] = <<>> THEN EntriesOf(name) = {}
          ELSE /\ Cardinality(EntriesOf(name)) = 1
               /\ \A n \in EntriesOf(name) :
                      LET stored == call_result.test_results[n] IN
                      /\ stored["success"] = call_args.saved[name][1].success
                      /\ stored["has_server_error"] = call_args.saved[name][1].has_server_error
                      /\ stored["requests"] = call_args.saved[name][1].requests
    /\ call_result.statistics.total_test_cases = Len(call_result.test_results)
    /\ call_result.statistics.passed_test_cases + call_result.statistics.failed_test_cases
          = call_result.statistics.total_test_cases
    /\ call_result.statistics.passed_test_cases
          = Cardinality({n \in 1..Len(call_result.test_results) :
                            call_result.test_results[n]["success"]})
    /\ call_result.statistics.test_cases_with_server_errors
          = Cardinality({n \in 1..Len(call_result.test_results) :
                            call_result.test_results[n]["has_server_error"]})

\* a case was saved again with another result while a case of another name,
\* saved before it, is still stored
C20_Witness ==
    /\ call_args.saves = 3
    /\ Len(call_result.test_results) = 2
    /\ call_result.test_results[1]["test_case_name"] # call_args.name
    /\ call_result.test_results[2]["test_case_name"] = call_args.name
    /\ call_result.test_results[2]["has_server_error"]
    /\ call_result.statistics.test_cases_with_server_errors = 1
    /\ call_result.statistics.failed_test_cases = 1

-----------------------------------------------------------------------------
(* Properties of the results of a run *)

\* the targets of the run whose baseline flow ended with a result
TargetsWith(result) ==
    {n \in 1..Len(call_args) : call_args[n].plan /\ call_args[n].result = result}

\* C21: in the results of a run, successful_operations is the number of targets
\* whose baseline flow ended in success and server_errors the number of targets
\* whose flow ended in server_error.
C21_ResultsCountFlowResults ==
    call_pc = "returned" =>
        /\ call_result.results.successful_operations = Cardinality(TargetsWith("success"))
        /\ call_result.results.server_errors = Cardinality(TargetsWith("server_error"))

\* C22: once all planning tasks of the pool have finished, the counters of the
\* shared tracker are the sums over all oracle calls that returned, and
\* total_tokens = prompt_tokens + completion_tokens.
C22_NoUsageUpdateIsLost ==
    call_pc = "returned" =>
        /\ call_result.tracker.prompt_tokens = call_result.calls * 1
        /\ call_result.tracker.completion_tokens = call_result.calls * 2
        /\ call_result.tracker.total_cost = call_result.calls * 1
        /\ call_result.tracker.total_tokens
              = call_result.tracker.prompt_tokens + call_result.tracker.completion_tokens

-----------------------------------------------------------------------------
(* Further properties of the baseline generator *)

Progress(step, request, position, oracle_calls) ==
    (step * 11 + request) * 4 + (IF position = "send" THEN 3 ELSE oracle_calls)

\* C24: the generation of a baseline always ends: while it runs, every oracle
\* call and every request moves it forward (no step is repeated without using
\* up a request, no request without using up an oracle call), within at most 10
\* requests per step and 3 oracle calls per ask; and the flow it returns has
\* result success, failure or server_error.
C24_BaselineGenerationTerminates ==
    [][ /\ pc' \in {"llm", "send"} =>
              /\ idx' \in 1..Len(operation_flow'.selected_operations)
              /\ attempt' \in 1..10
              /\ requests_sent' < 10
              /\ llm_attempt' \in 0..2
        /\ (pc \in {"llm", "send"} /\ pc' \in {"llm", "send"}) =>
              Progress(idx', attempt', pc', llm_attempt')
                  > Progress(idx, attempt, pc, llm_attempt)
        /\ pc' = "returned" =>
              /\ pc \in {"llm", "send"}
              /\ operation_flow'.result \in {"success", "failure", "server_error"}
       ]_vars

\* the last request of the last step: the oracle has failed twice on its values
C24_Witness ==
    /\ pc = "llm"
    /\ llm_attempt = 2
    /\ attempt = 10
    /\ idx = 2
    /\ Len(operation_flow.selected_operations) = 2

\* C25: the first ask of a step is GenerateValid, and FixValid is asked only
\* for a request that directly follows a 4xx answer of the same step.
C25_FixOnlyAfter4xx ==
    pc = "llm" =>
        /\ attempt = 1 => AskMode = "generate"
        /\ AskMode = "fix" => (attempt > 1 /\ status_code \in 400..499)

-----------------------------------------------------------------------------
(* Properties of the oracle's retry loops *)

\* the turns of the running ask that follow a malformed output
RetriesAfterMalformed ==
    {k \in 2..Len(call_args.sent) : call_args.outputs[k - 1].kind \in {"not_json", "rejected"}}

InPrompt(text, prompt) == \E n \in 1..Len(prompt) : prompt[n] = text

\* C26: with every template, the prompt of a retry after a malformed output
\* holds that raw output and its parse error, and an ask makes at most 3
\* oracle calls.
C26_RetryPromptHoldsOutputAndError ==
    /\ Len(call_args.sent) <= 3
    /\ \A k \in RetriesAfterMalformed :
          InPrompt(ErrorText(call_args.outputs[k - 1]), call_args.sent[k])

\* C27: an ask ends on a timeout only at its third oracle call, and the value
\* it falls back to reaches the caller without an exception.
C27_TimeoutIsRetried ==
    (/\ call_pc # "called"
     /\ call_args.outputs # <<>>
     /\ call_args.outputs[Len(call_args.outputs)].kind = "timeout")
        => (Len(call_args.outputs) = 3 /\ call_pc # "raised")

-----------------------------------------------------------------------------
(* Properties of the executions a flow keeps *)

\* C28: when a step ends with a 2xx the flow gains that one execution, with
\* the request that was answered, and no execution of the flow has a 4xx
\* status, then or later, however many 4xx answers the step received.
C28_No4xxExecutionIsKept ==
    [][ /\ \A n \in 1..Len(operation_flow'.executed_operations) :
              operation_flow'.executed_operations[n].response.status_code \notin 400..499
        /\ (pc = "send" /\ last_status' \in 200..299) =>
              LET ops == operation_flow'.executed_operations IN
              /\ Len(ops) = Len(operation_flow.executed_operations) + 1
              /\ ops[Len(ops)].request = request_data
              /\ ops[Len(ops)].response.status_code = last_status'
        /\ (pc = "send" /\ last_status' \in 400..499) =>
              operation_flow'.executed_operations = operation_flow.executed_operations
      ]_vars

C28_Witness ==
    /\ pc = "returned"
    /\ operation_flow.result = "success"
    /\ attempt = 3
    /\ requests_sent = 3
    /\ last_status \in 200..299
    /\ Len(operation_flow.executed_operations) = 2

\* C29: adding an execution leaves the recorded id and the flat keys of every
\* earlier execution of another operation as they were, and the recorded ids
\* of the flow stay pairwise distinct.
C29_AddRenamesOnlyTheSameOperation ==
    [][ (/\ operation_flow # NoFlow
         /\ operation_flow' # NoFlow
         /\ Len(operation_flow'.executed_operations)
               = Len(operation_flow.executed_operations) + 1) =>
           LET before == operation_flow.executed_operations
               after == operation_flow'.executed_operations
               added == operation_flow.selected_operations[Len(after)]
           IN /\ \A n \in 1..Len(before) :
                    operation_flow.selected_operations[n] # added =>
                       /\ after[n].operation_id = before[n].operation_id
                       /\ DOMAIN FlattenWithRefs(after[n]) = DOMAIN FlattenWithRefs(before[n])
              /\ \A m, n \in 1..Len(after) :
                    m # n => after[m].operation_id # after[n].operation_id
      ]_vars

-----------------------------------------------------------------------------
(* Properties of the retries of a scenario *)

\* C30: an oracle call for a scenario whose overlay is rejected leaves the
\* value map as it was, so that every call for the scenario starts from the
\* values of the baseline flow.
C30_RejectedOverlayLeavesBaseline ==
    [][ /\ (pc = "materialize" /\ pc' = "materialize" /\ llm_attempt' = llm_attempt + 1)
              => value_dict' = value_dict
        /\ pc' = "materialize" => value_dict' = get_values_with_ref_objects(operation_flow')
      ]_vars

====
